---- MODULE Spec2Model ----
(***************************************************************************)
(* dydactic: the synchronous validation pipeline of dydactic/validate.py   *)
(* (validate_record, validate_json, validate_records, validate_jsons,      *)
(* validate), with the hooks of dydactic/hooks.py, the rules of            *)
(* dydactic/rules.py, the transforms of dydactic/transform.py, the         *)
(* structural caster of dydactic/cast.py and the concurrent path of        *)
(* dydactic/async_validate.py.                                             *)
(*                                                                         *)
(* A record is a mapping from keys to small integers.  The target shape    *)
(* declares the field "a" (and, for the oracle-backed shape, a defaulted   *)
(* field "b"); the field type accepts the values 1 and 2.  Every mapping   *)
(* input also carries the undeclared key "x".  The configured transform is *)
(* the field-level transform v -> v + 1 on "a" or a record-level transform *)
(* that returns None instead of a mapping for a record whose "a" is 2; the *)
(* configured rule is the field rule "a < 2", fields = ["a"] and           *)
(* project_fields = ["a"].                                                 *)
(***************************************************************************)
EXTENDS Integers, Sequences, FiniteSets, TLC

\* Longest input sequence explored.
MaxLen == 2

VARIABLES
    cfg,      \* the keyword arguments of the pipeline call
    input,    \* the items the caller supplies, in order
    pc,       \* "start", "bulk_loop", "loop", "done", "stopped", "raised"
    taken,    \* number of items taken from the caller's iterator so far
    work,     \* records_list / the sequence the per-item loop iterates
    pos,      \* number of items of work the current loop has processed
    index,    \* the loop's index counter (the progress callback's index)
    total,    \* total passed to the progress callback (None when unknown)
    vmodels,  \* validated_models of the bulk attempt
    yielded,  \* the results yielded to the caller so far, in order
    trace,    \* every callback invocation, validation and yield, in order
    exc,      \* the exception propagated to the caller, "" when none
    call,     \* the call into cast.py under way: function and arguments
    cpc,      \* "idle", "called", "union_loop", "fields_loop", "returned", "raised"
    member,   \* number of union members / mapping keys the loop is done with
    attempted,\* attempted_types of cast_as_union
    new_data, \* new_data of cast_to_annotated_class
    errors,   \* errors of cast_to_annotated_class
    casts,    \* every coercion attempted by the call so far, in order
    outcome,  \* what the call returned or raised
    environ,  \* os.getenv("PYTHON_MAX_WORKERS") and os.cpu_count() of the process
    max_workers, \* max_workers of the concurrent call once its default is settled
    semaphore,\* the value of the asyncio.Semaphore of the concurrent call
    tasks,    \* the state of each task: "pending", "running", "done"
    completed,\* the indices of the finished tasks, in completion order
    rv_rules, \* the rules a RuleValidator is constructed from, as configured
    rv_record,\* the record handed to RuleValidator.validate
    rv_self,  \* the RuleValidator: rules, field_rules, record_rules
    rv_errors,\* the errors RuleValidator.validate returned
    rv_pc,    \* "idle", "new", "constructed", "validated"
    heap,     \* the dict objects alive, by address; heap[1] is the caller's mapping
    frame     \* the call working on the heap: its arguments, locals and position

pipevars == <<cfg, input, pc, taken, work, pos, index, total, vmodels, yielded, trace, exc>>
castvars == <<call, cpc, member, attempted, new_data, errors, casts, outcome>>
asyncvars == <<environ, max_workers, semaphore, tasks, completed>>
rulevars == <<rv_rules, rv_record, rv_self, rv_errors, rv_pc>>
heapvars == <<heap, frame>>
vars == <<pipevars, castvars, asyncvars, rulevars, heapvars>>

----------------------------------------------------------------------------
\* Python's None and a present value.
None == <<>>
Some(x) == <<x>>

\* ErrorOption
RETURN == "return"
RAISE == "raise"
SKIP == "skip"

\* fields=["a"], project_fields=["a"]
FieldsArg == {"a"}
ProjectArg == {"a"}

\* The values the declared field type accepts.
Accepts == {1, 2}

----------------------------------------------------------------------------
\* Results and outcomes

\* RecordValidationResult / JsonValidationResult (error, result, value)
ValidationResult(error, result, value) ==
    [error |-> error, result |-> result, value |-> value]

\* What a call gives its caller: a returned value or a propagated exception.
Return(r) == [ret |-> Some(r), exc |-> ""]
Raise(e) == [ret |-> None, exc |-> e]

\* pydantic_core's ValidationError.from_exception_data as the code calls it:
\* "type_error" is no pydantic v2 error type (KeyError: Invalid error type),
\* and "value_error" needs ctx["error"], which the code does not pass
\* (TypeError: ValueError: 'error' required in context).
from_exception_data(type, hasCtx) ==
    IF type = "type_error" THEN Raise("KeyError")
    ELSE IF type = "value_error" /\ ~hasCtx THEN Raise("TypeError")
    ELSE Return([kind |-> "pydantic", type |-> type])

\* cast.ValidationError(errors): the message is built from err['type'].__name__
\* for every entry, so an entry whose 'type' is a str (a rule error) raises
\* AttributeError before the exception object exists.
\* errs: the set of entries, each [field, typeIsClass].
ValidationError_init(errs) ==
    IF \E e \in errs : ~e.typeIsClass THEN Raise("AttributeError")
    ELSE Return([kind |-> "cast", fields |-> {e.field : e \in errs}])

----------------------------------------------------------------------------
\* transform.py, rules.py, cast.py and the oracle

\* transforms = [Transform(f)] with the record-level f returning None for a
\* record whose "a" is 2 and its argument for any other record: on the former
\* apply_transforms raises ValueError("Record-level transform must return dict").
transform_fails(record, transforms) ==
    transforms = "record" /\ "a" \in DOMAIN record /\ record["a"] = 2

\* apply_transforms with transforms = [Transform(lambda v: v + 1, field="a")],
\* or with the record-level transform on a record it returns.
apply_transforms(record, transforms) ==
    IF transforms \in {"none", "record"} THEN record
    ELSE IF "a" \in DOMAIN record THEN [record EXCEPT !["a"] = @ + 1]
    ELSE record

filter_record_fields(record, fields) ==
    [k \in (DOMAIN record) \cap fields |-> record[k]]

\* The oracle on a mapping (model.model_validate): undeclared keys are ignored,
\* the defaulted field b is filled in.
model_validate(d) ==
    IF "a" \in DOMAIN d /\ d["a"] \in Accepts
    THEN Return([cls |-> "Model", attrs |-> [a |-> d["a"], b |-> 0]])
    ELSE Raise("pydantic.ValidationError")

\* The oracle on encoded text (model.model_validate_json).
model_validate_json(text) ==
    IF "a" \in DOMAIN text /\ text["a"] \in Accepts
    THEN Return([cls |-> "Model", attrs |-> [a |-> text["a"], b |-> 0]])
    ELSE Raise("pydantic.ValidationError")

\* cast_to_annotated_class for a plain class annotated a: T with no __init__:
\* the missing-field gate, the per-field coercion, then construction by
\* __new__ and setattr of every key of new_data.
cast_to_annotated_class(d) ==
    LET missing == {"a"} \ DOMAIN d
        failing == {k \in {"a"} \cap DOMAIN d : d[k] \notin Accepts}
    IN  IF missing # {}
        THEN [ok |-> FALSE, errors |-> {[field |-> k, typeIsClass |-> TRUE] : k \in missing},
              inst |-> None]
        ELSE IF failing # {}
        THEN [ok |-> FALSE, errors |-> {[field |-> k, typeIsClass |-> TRUE] : k \in failing},
              inst |-> None]
        ELSE [ok |-> TRUE, errors |-> {}, inst |-> Some([cls |-> "Plain", attrs |-> d])]

\* RuleValidator(rules).validate(instance) with
\* rules = [ValidationRule("a", lambda v: v < 2, ...)]: the failing entries.
RuleValidator_validate(inst) ==
    IF "a" \in DOMAIN inst.attrs /\ ~(inst.attrs["a"] < 2)
    THEN {[field |-> "a", typeIsClass |-> FALSE]}
    ELSE {}

\* _project_model_fields and type("ProjectedResult", (), projected)()
project_model_fields(inst, fields) ==
    [cls |-> "ProjectedResult",
     attrs |-> [k \in (DOMAIN inst.attrs) \cap fields |-> inst.attrs[k]]]

----------------------------------------------------------------------------
\* validate_record and validate_json

\* The try block of validate_record: type validation, rules, projection.
try_block(record_dict, c) ==
    LET cast == cast_to_annotated_class(record_dict)
        typed == IF c.shape = "oracle" THEN model_validate(record_dict)
                 ELSE IF cast.ok THEN Return(cast.inst[1])
                 ELSE LET e == ValidationError_init(cast.errors)
                      IN  IF e.exc = "" THEN Raise("cast.ValidationError") ELSE e
    IN  IF typed.exc # "" THEN typed
        ELSE LET validated_record == typed.ret[1]
                 rule_errors == IF c.rules THEN RuleValidator_validate(validated_record)
                                ELSE {}
                 e == ValidationError_init(rule_errors)
             IN  IF rule_errors # {}
                 THEN IF e.exc = "" THEN Raise("cast.ValidationError") ELSE e
                 ELSE IF c.project /\ validated_record.cls = "Model"
                 THEN Return(project_model_fields(validated_record, ProjectArg))
                 ELSE Return(validated_record)

\* except_pydantic with the error dropped from the returned result.
except_pydantic_error_lost(raise_errors, original_record) ==
    IF raise_errors THEN Raise("pydantic.ValidationError")
    ELSE Return(ValidationResult(None, None, original_record))

\* except pydantic.ValidationError as e
except_pydantic(raise_errors, original_record) ==
    IF raise_errors THEN Raise("pydantic.ValidationError")
    ELSE Return(ValidationResult(Some([kind |-> "pydantic", type |-> "oracle"]), None,
                                 original_record))

\* except cast.ValidationError as e: both branches first build a pydantic error
\* from entries of type "type_error".
except_cast(raise_errors, original_record) ==
    LET pydantic_error == from_exception_data("type_error", FALSE)
    IN  IF pydantic_error.exc # "" THEN pydantic_error
        ELSE IF raise_errors THEN Raise("pydantic.ValidationError")
        ELSE Return(ValidationResult(pydantic_error.ret, None, original_record))

\* except Exception as e
except_exception(e, raise_errors, original_record) ==
    LET pydantic_error == from_exception_data("value_error", FALSE)
    IN  IF raise_errors THEN Raise(e)
        ELSE IF pydantic_error.exc # "" THEN pydantic_error
        ELSE Return(ValidationResult(pydantic_error.ret, None, original_record))

\* return RecordValidationResult(None, result_model, original_record)
return_success(validated_record, original_record) ==
    Return(ValidationResult(None, Some(validated_record), original_record))

validate_record(record, c, raise_errors) ==
    LET original_record == record
        record_dict0 == record.data
        record_dict1 == IF c.transforms # "none"
                        THEN apply_transforms(record_dict0, c.transforms)
                        ELSE record_dict0
        record_dict == IF c.fields THEN filter_record_fields(record_dict1, FieldsArg)
                       ELSE record_dict1
        t == try_block(record_dict, c)
    IN  IF transform_fails(record_dict0, c.transforms) THEN Raise("ValueError")
        ELSE IF t.exc = "" THEN return_success(t.ret[1], original_record)
        ELSE IF t.exc = "pydantic.ValidationError"
        THEN except_pydantic(raise_errors, original_record)
        ELSE IF t.exc = "cast.ValidationError"
        THEN except_cast(raise_errors, original_record)
        ELSE except_exception(t.exc, raise_errors, original_record)

validate_json(json, c, raise_errors) ==
    LET v == model_validate_json(json.data)
    IN  IF v.exc # ""
        THEN IF raise_errors THEN Raise("pydantic.ValidationError")
             ELSE Return(ValidationResult(Some([kind |-> "pydantic", type |-> "oracle"]),
                                          None, json))
        ELSE Return(ValidationResult(None, v.ret, json))

----------------------------------------------------------------------------
\* hooks.py and the progress callback

\* One entry of the trace.
Ev(e, t, r) == [ev |-> e, tag |-> t, r |-> r, n |-> 0, tot |-> None]
ProgressEv(t, r, i, tot) == [ev |-> "progress", tag |-> t, r |-> r, n |-> i, tot |-> tot]

\* What a caller-supplied callback does when invoked.
callback(c) == IF c.cbRaise THEN "raise" ELSE "ok"

\* The caller's should_continue callback: it raises, or it returns False for
\* the item at position scAt and True for every other item.
should_continue(c, result) ==
    IF c.cbRaise THEN "raise"
    ELSE IF result.value.tag = c.scAt THEN "false" ELSE "true"

\* Each call_* returns the invocation it made (if any) and the exception that
\* leaves it: every body is wrapped in try / except Exception: pass.
call_before_validate(c, record) ==
    IF c.hooks THEN [log |-> <<Ev("before_validate", record.tag, callback(c))>>, exc |-> ""]
    ELSE [log |-> <<>>, exc |-> ""]

call_after_validate(c, result) ==
    IF c.hooks
    THEN [log |-> <<Ev("after_validate", result.value.tag, callback(c))>>, exc |-> ""]
    ELSE [log |-> <<>>, exc |-> ""]

call_on_success(c, result) ==
    IF c.hooks /\ result.error = None
    THEN [log |-> <<Ev("on_success", result.value.tag, callback(c))>>, exc |-> ""]
    ELSE [log |-> <<>>, exc |-> ""]

call_on_error(c, result) ==
    IF c.hooks /\ result.error # None
    THEN [log |-> <<Ev("on_error", result.value.tag, callback(c))>>, exc |-> ""]
    ELSE [log |-> <<>>, exc |-> ""]

\* check_should_continue answering False when the callback raises.
check_should_continue_stop_on_raise(c, result) ==
    IF c.hooks
    THEN LET v == should_continue(c, result)
         IN  [log |-> <<Ev("should_continue", result.value.tag, v)>>,
              value |-> v = "true"]
    ELSE [log |-> <<>>, value |-> TRUE]

check_should_continue(c, result) ==
    IF c.hooks
    THEN LET v == should_continue(c, result)
         IN  [log |-> <<Ev("should_continue", result.value.tag, v)>>,
              value |-> IF v = "raise" THEN TRUE ELSE v = "true"]
    ELSE [log |-> <<>>, value |-> TRUE]

\* try: on_progress(index, total, result) except Exception: pass
call_on_progress(c, idx, tot, result) ==
    IF c.progress
    THEN [log |-> <<ProgressEv(result.value.tag, callback(c), idx, tot)>>, exc |-> ""]
    ELSE [log |-> <<>>, exc |-> ""]

----------------------------------------------------------------------------
\* The pipelines of validate.py, as functions of the generator's state s

\* list(records) of the caller's argument: a list gives all its items again,
\* a one-shot iterator only those not taken yet.
list_of_records(c, in, s) ==
    IF c.listInput THEN in ELSE SubSeq(in, s.taken + 1, Len(in))

\* "Individual validation (default or fallback from bulk)": materialize the
\* records, take the total, start the per-item loop at index 0.
individual_setup(s, records, in) ==
    [s EXCEPT !.pc = "loop", !.work = records, !.taken = Len(in), !.pos = 0,
              !.index = 0, !.total = Some(Len(records))]

can_use_bulk(c) ==
    c.shape = "oracle" /\ c.error_option = RETURN

\* How a validation call shows in the trace.
ValidateEv(tag, out) ==
    Ev("validate", tag,
       IF out.exc # "" THEN "raise" ELSE IF out.ret[1].error # None THEN "error" ELSE "ok")

\* after_result with the progress callback fired before the should-continue
\* answer is acted on.
after_result_stop_after_progress(c, s, result, tr, idx) ==
    LET h1 == call_after_validate(c, result)
        h2 == call_on_success(c, result)
        h3 == call_on_error(c, result)
        sc == check_should_continue(c, result)
        pg == call_on_progress(c, idx, s.total, result)
        tr3 == tr \o h1.log \o h2.log \o h3.log \o sc.log \o pg.log
    IN  IF ~sc.value THEN [s EXCEPT !.pc = "stopped", !.trace = tr3]
        ELSE IF result.error # None /\ c.error_option = SKIP
        THEN [s EXCEPT !.pos = @ + 1, !.index = @ + 1, !.trace = tr3]
        ELSE [s EXCEPT !.pos = @ + 1, !.index = @ + 1,
                       !.trace = tr3 \o <<Ev("yield", result.value.tag, "ok")>>,
                       !.yielded = Append(@, result)]

\* after_result with the should-continue answer acted on only after the
\* current item's progress callback and yield.
after_result_stop_late(c, s, result, tr, idx) ==
    LET h1 == call_after_validate(c, result)
        h2 == call_on_success(c, result)
        h3 == call_on_error(c, result)
        sc == check_should_continue(c, result)
        pg == call_on_progress(c, idx, s.total, result)
        tr3 == tr \o h1.log \o h2.log \o h3.log \o sc.log \o pg.log
        after == IF sc.value THEN s.pc ELSE "stopped"
    IN  IF result.error # None /\ c.error_option = SKIP
        THEN [s EXCEPT !.pc = after, !.pos = @ + 1, !.index = @ + 1, !.trace = tr3]
        ELSE [s EXCEPT !.pc = after, !.pos = @ + 1, !.index = @ + 1,
                       !.trace = tr3 \o <<Ev("yield", result.value.tag, "ok")>>,
                       !.yielded = Append(@, result)]

\* after_result with the index counter left alone when a result is dropped
\* under SKIP.
after_result_skip_keeps_index(c, s, result, tr, idx) ==
    LET h1 == call_after_validate(c, result)
        h2 == call_on_success(c, result)
        h3 == call_on_error(c, result)
        sc == check_should_continue(c, result)
        tr2 == tr \o h1.log \o h2.log \o h3.log \o sc.log
        pg == call_on_progress(c, idx, s.total, result)
        tr3 == tr2 \o pg.log
    IN  IF ~sc.value THEN [s EXCEPT !.pc = "stopped", !.trace = tr2]
        ELSE IF result.error # None /\ c.error_option = SKIP
        THEN [s EXCEPT !.pos = @ + 1, !.trace = tr3]
        ELSE [s EXCEPT !.pos = @ + 1, !.index = @ + 1,
                       !.trace = tr3 \o <<Ev("yield", result.value.tag, "ok")>>,
                       !.yielded = Append(@, result)]

\* after_result with the progress callback placed after the SKIP check, so
\* that a dropped result is never reported.
after_result_progress_after_skip(c, s, result, tr, idx) ==
    LET h1 == call_after_validate(c, result)
        h2 == call_on_success(c, result)
        h3 == call_on_error(c, result)
        sc == check_should_continue(c, result)
        tr2 == tr \o h1.log \o h2.log \o h3.log \o sc.log
        pg == call_on_progress(c, idx, s.total, result)
    IN  IF ~sc.value THEN [s EXCEPT !.pc = "stopped", !.trace = tr2]
        ELSE IF result.error # None /\ c.error_option = SKIP
        THEN [s EXCEPT !.pos = @ + 1, !.index = @ + 1, !.trace = tr2]
        ELSE [s EXCEPT !.pos = @ + 1, !.index = @ + 1,
                       !.trace = tr2 \o pg.log \o <<Ev("yield", result.value.tag, "ok")>>,
                       !.yielded = Append(@, result)]

\* The rest of one loop iteration once the item's result exists: hooks,
\* should-continue, progress, then skip or yield.  idx is the index handed to
\* the progress callback.
after_result(c, s, result, tr, idx) ==
    LET h1 == call_after_validate(c, result)
        h2 == call_on_success(c, result)
        h3 == call_on_error(c, result)
        sc == check_should_continue(c, result)
        tr2 == tr \o h1.log \o h2.log \o h3.log \o sc.log
        pg == call_on_progress(c, idx, s.total, result)
        tr3 == tr2 \o pg.log
        hookExc == IF h1.exc # "" THEN h1.exc ELSE IF h2.exc # "" THEN h2.exc
                   ELSE IF h3.exc # "" THEN h3.exc ELSE ""
    IN  IF hookExc # "" THEN [s EXCEPT !.pc = "raised", !.exc = hookExc, !.trace = tr2]
        ELSE IF ~sc.value THEN [s EXCEPT !.pc = "stopped", !.trace = tr2]
        ELSE IF pg.exc # "" THEN [s EXCEPT !.pc = "raised", !.exc = pg.exc, !.trace = tr3]
        ELSE IF result.error # None /\ c.error_option = SKIP
        THEN [s EXCEPT !.pos = @ + 1, !.index = @ + 1, !.trace = tr3]
        ELSE [s EXCEPT !.pos = @ + 1, !.index = @ + 1,
                       !.trace = tr3 \o <<Ev("yield", result.value.tag, "ok")>>,
                       !.yielded = Append(@, result)]

\* loop_iteration with a failed validation call caught and the item dropped.
loop_iteration_catches(c, s, record, out) ==
    LET b == call_before_validate(c, record)
        tr == s.trace \o b.log \o <<ValidateEv(record.tag, out)>>
    IN  IF out.exc # ""
        THEN [s EXCEPT !.pos = @ + 1, !.index = @ + 1, !.trace = tr]
        ELSE after_result(c, s, out.ret[1], tr, s.index)

\* One iteration of a per-item loop on `record`, whose validation gave `out`.
loop_iteration(c, s, record, out) ==
    LET b == call_before_validate(c, record)
        tr == s.trace \o b.log
    IN  IF b.exc # "" THEN [s EXCEPT !.pc = "raised", !.exc = b.exc, !.trace = tr]
        ELSE IF out.exc # ""
        THEN [s EXCEPT !.pc = "raised", !.exc = out.exc,
                       !.trace = tr \o <<ValidateEv(record.tag, out)>>]
        ELSE after_result(c, s, out.ret[1], tr \o <<ValidateEv(record.tag, out)>>, s.index)

\* validate_records, the bulk attempt up to the bulk loop.  A ValueError of
\* apply_transforms is caught by the outer "except Exception: pass", and the
\* function goes on to individual validation of its `records` argument.
bulk_attempt(c, in, s) ==
    LET records_list == list_of_records(c, in, s)
        s1 == [s EXCEPT !.taken = Len(in)]
        transformed == IF c.transforms # "none"
                       THEN [i \in DOMAIN records_list |->
                               [records_list[i] EXCEPT
                                  !.data = apply_transforms(@, c.transforms)]]
                       ELSE records_list
        filtered == IF c.fields
                    THEN [i \in DOMAIN transformed |->
                            [transformed[i] EXCEPT
                               !.data = filter_record_fields(@, FieldsArg)]]
                    ELSE transformed
        outs == [i \in DOMAIN filtered |-> model_validate(filtered[i].data)]
        tr == s.trace \o [i \in DOMAIN filtered |->
                            Ev("validate", filtered[i].tag,
                               IF outs[i].exc # "" THEN "error" ELSE "ok")]
    IN  IF records_list = <<>> THEN [s1 EXCEPT !.pc = "done"]
        ELSE IF ~(\A i \in DOMAIN records_list : records_list[i].kind = "dict")
        THEN individual_setup(s1, records_list, in)
        ELSE IF \E i \in DOMAIN records_list :
                    transform_fails(records_list[i].data, c.transforms)
        THEN individual_setup(s1, list_of_records(c, in, s1), in)
        ELSE IF \E i \in DOMAIN outs : outs[i].exc # ""
        THEN individual_setup([s1 EXCEPT !.trace = tr], filtered, in)
        ELSE [s1 EXCEPT !.pc = "bulk_loop", !.work = filtered,
                        !.vmodels = [i \in DOMAIN outs |-> outs[i].ret[1]],
                        !.pos = 0, !.total = Some(Len(filtered)), !.trace = tr]

\* The result the bulk loop builds for validated_models[idx].
bulk_result(c, validated_model, record) ==
    LET rule_errors == IF c.rules THEN RuleValidator_validate(validated_model) ELSE {}
        cast_error == ValidationError_init(rule_errors)
        pydantic_err == from_exception_data("type_error", FALSE)
    IN  IF rule_errors # {}
        THEN IF cast_error.exc # "" THEN cast_error
             ELSE IF pydantic_err.exc # "" THEN pydantic_err
             ELSE Return(ValidationResult(pydantic_err.ret, None, record))
        ELSE Return(ValidationResult(
                 None,
                 Some(IF c.project THEN project_model_fields(validated_model, ProjectArg)
                      ELSE validated_model),
                 record))

\* validate_records, one iteration of the bulk loop.  An exception raised
\* while the result is built is caught by the outer "except Exception: pass",
\* and the function goes on to individual validation of its `records` argument.
bulk_loop_iteration(c, in, s) ==
    LET idx == s.pos
        out == bulk_result(c, s.vmodels[idx + 1], s.work[idx + 1])
    IN  IF out.exc # "" THEN individual_setup(s, list_of_records(c, in, s), in)
        ELSE after_result(c, [s EXCEPT !.index = idx], out.ret[1], s.trace, idx)

\* validate_records up to its first loop.
start_validate_records(c, in, s) ==
    IF c.bulk /\ can_use_bulk(c) THEN bulk_attempt(c, in, s)
    ELSE individual_setup(s, list_of_records(c, in, s), in)

\* validate_records, one iteration of the per-item loop.
records_loop_iteration(c, s) ==
    LET record == s.work[s.pos + 1]
    IN  loop_iteration(c, s, record,
                       validate_record(record, c, c.error_option = RAISE))

\* validate_jsons and validate up to their loop: the total, if the argument
\* has a length.
start_lazy(c, in, s) ==
    [s EXCEPT !.pc = "loop", !.work = in, !.pos = 0, !.index = 0,
              !.total = IF c.listInput THEN Some(Len(in)) ELSE None]

\* validate_jsons, one iteration: the next item is taken from the argument.
jsons_loop_iteration(c, s) ==
    LET record == s.work[s.pos + 1]
    IN  loop_iteration(c, [s EXCEPT !.taken = s.pos + 1], record,
                       validate_json(record, c, c.error_option = RAISE))

\* validate with every item sent to record validation.
validate_loop_iteration_no_dispatch(c, s) ==
    LET record == s.work[s.pos + 1]
    IN  loop_iteration(c, [s EXCEPT !.taken = s.pos + 1], record,
                       validate_record(record, c, c.error_option = RAISE))

\* validate, one iteration: dispatch on the item's own kind.
validate_loop_iteration(c, s) ==
    LET record == s.work[s.pos + 1]
    IN  loop_iteration(c, [s EXCEPT !.taken = s.pos + 1], record,
                       IF record.kind = "json"
                       THEN validate_json(record, c, c.error_option = RAISE)
                       ELSE validate_record(record, c, c.error_option = RAISE))

\* The loop finds its sequence exhausted and the generator returns.
finish(s) == [s EXCEPT !.pc = "done"]

----------------------------------------------------------------------------
\* Calls explored

\* The calls: which function, with which keyword arguments.
\*   hooks: a ValidationHooks with all five callbacks set, or None
\*   cbRaise: every caller-supplied callback raises when invoked
\*   scAt: the position whose result should_continue answers False for (0: none)
Cfgs ==
    {c \in [fn : {"validate_records", "validate_jsons", "validate"},
            error_option : {RETURN, RAISE, SKIP},
            bulk : BOOLEAN,
            shape : {"oracle", "plain"},
            listInput : BOOLEAN,
            hooks : BOOLEAN,
            progress : BOOLEAN,
            cbRaise : BOOLEAN,
            scAt : 0..MaxLen,
            transforms : {"none", "field", "record"},
            fields : BOOLEAN,
            rules : BOOLEAN,
            project : BOOLEAN] :
        \* bulk is an argument of validate_records that reads it
        /\ (c.bulk => c.fn = "validate_records" /\ c.shape = "oracle")
        \* text validation needs an oracle-backed shape and takes no options
        /\ (c.fn = "validate_jsons" =>
              c.shape = "oracle" /\ c.transforms = "none"
              /\ ~c.fields /\ ~c.rules /\ ~c.project)
        \* the callbacks' behaviour only exists when a callback is given
        /\ (c.cbRaise => c.hooks \/ c.progress)
        /\ (c.scAt # 0 => c.hooks /\ ~c.cbRaise)
        \* at most one of the optional stages, or all of them
        /\ Cardinality({o \in {"t", "f", "r", "p"} :
                           \/ o = "t" /\ c.transforms # "none"
                           \/ o = "f" /\ c.fields
                           \/ o = "r" /\ c.rules
                           \/ o = "p" /\ c.project}) \in {0, 1, 4}}

\* The item kinds a call is given: mappings (dict), rich objects (obj), text.
Alphabet(c) ==
    IF c.fn = "validate_jsons" THEN {<<"json", 0>>, <<"json", 1>>}
    ELSE IF c.fn = "validate" /\ c.shape = "oracle"
    THEN {<<"dict", 0>>, <<"dict", 1>>, <<"json", 0>>, <<"json", 1>>}
    ELSE {<<"dict", 0>>, <<"dict", 1>>, <<"dict", 2>>, <<"obj", 1>>}

\* The item at position tag: a mapping {"a": a, "x": 0}, or the text {"a": a}.
Item(tag, kind, a) ==
    [tag |-> tag, kind |-> kind,
     data |-> IF kind = "json" THEN [a |-> a] ELSE [a |-> a, x |-> 0]]

Inputs(c) ==
    UNION {{[i \in 1..n |-> Item(i, f[i][1], f[i][2])] : f \in [1..n -> Alphabet(c)]} :
           n \in 0..MaxLen}

----------------------------------------------------------------------------
\* The state machine

\* No call is followed on the heap.
HeapIdle == heap = <<>> /\ frame = <<>>

\* No RuleValidator is in use.
RuleIdle ==
    /\ rv_rules = <<>> /\ rv_record = <<>> /\ rv_self = <<>> /\ rv_errors = <<>>
    /\ rv_pc = "idle"

\* No concurrent call is under way.
AsyncIdle ==
    /\ environ = <<>> /\ max_workers = <<>> /\ semaphore = 0
    /\ tasks = <<>> /\ completed = <<>>

\* No call into cast.py is under way.
CastIdle ==
    /\ call = <<>> /\ cpc = "idle" /\ member = 0 /\ attempted = <<>>
    /\ new_data = <<>> /\ errors = <<>> /\ casts = <<>> /\ outcome = <<>>

State ==
    [pc |-> pc, taken |-> taken, work |-> work, pos |-> pos, index |-> index,
     total |-> total, vmodels |-> vmodels, yielded |-> yielded, trace |-> trace,
     exc |-> exc]

InitialState ==
    [pc |-> "start", taken |-> 0, work |-> <<>>, pos |-> 0, index |-> 0,
     total |-> None, vmodels |-> <<>>, yielded |-> <<>>, trace |-> <<>>, exc |-> ""]

Becomes(s) ==
    /\ pc' = s.pc /\ taken' = s.taken /\ work' = s.work /\ pos' = s.pos
    /\ index' = s.index /\ total' = s.total /\ vmodels' = s.vmodels
    /\ yielded' = s.yielded /\ trace' = s.trace /\ exc' = s.exc
    /\ UNCHANGED <<cfg, input>>
    /\ UNCHANGED <<castvars, asyncvars, rulevars, heapvars>>

Init ==
    /\ cfg \in Cfgs
    /\ input \in Inputs(cfg)
    /\ pc = "start" /\ taken = 0 /\ work = <<>> /\ pos = 0 /\ index = 0
    /\ total = None /\ vmodels = <<>> /\ yielded = <<>> /\ trace = <<>> /\ exc = ""
    /\ CastIdle
    /\ AsyncIdle
    /\ RuleIdle
    /\ HeapIdle

StartRecords ==
    /\ pc = "start" /\ cfg.fn = "validate_records"
    /\ Becomes(start_validate_records(cfg, input, State))

StartJsons ==
    /\ pc = "start" /\ cfg.fn = "validate_jsons"
    /\ Becomes(start_lazy(cfg, input, State))

StartValidate ==
    /\ pc = "start" /\ cfg.fn = "validate"
    /\ Becomes(start_lazy(cfg, input, State))

BulkLoopStep ==
    /\ pc = "bulk_loop" /\ pos < Len(vmodels)
    /\ Becomes(bulk_loop_iteration(cfg, input, State))

RecordsLoopStep ==
    /\ pc = "loop" /\ cfg.fn = "validate_records" /\ pos < Len(work)
    /\ Becomes(records_loop_iteration(cfg, State))

JsonsLoopStep ==
    /\ pc = "loop" /\ cfg.fn = "validate_jsons" /\ pos < Len(work)
    /\ Becomes(jsons_loop_iteration(cfg, State))

ValidateLoopStep ==
    /\ pc = "loop" /\ cfg.fn = "validate" /\ pos < Len(work)
    /\ Becomes(validate_loop_iteration(cfg, State))

Finish ==
    /\ pc \in {"loop", "bulk_loop"} /\ pos = Len(work)
    /\ Becomes(finish(State))

Next ==
    \/ StartRecords
    \/ StartJsons
    \/ StartValidate
    \/ BulkLoopStep
    \/ RecordsLoopStep
    \/ JsonsLoopStep
    \/ ValidateLoopStep
    \/ Finish

Spec == Init /\ [][Next]_vars

\* One step of the generator from state s, and the run to its end.
step(c, in, s) ==
    IF s.pc = "start"
    THEN IF c.fn = "validate_records" THEN start_validate_records(c, in, s)
         ELSE start_lazy(c, in, s)
    ELSE IF s.pos = Len(s.work) THEN finish(s)
    ELSE IF s.pc = "bulk_loop" THEN bulk_loop_iteration(c, in, s)
    ELSE IF c.fn = "validate_records" THEN records_loop_iteration(c, s)
    ELSE IF c.fn = "validate_jsons" THEN jsons_loop_iteration(c, s)
    ELSE validate_loop_iteration(c, s)

RECURSIVE run_to_end(_, _, _)
run_to_end(c, in, s) ==
    IF s.pc \in {"done", "stopped", "raised"} THEN s
    ELSE run_to_end(c, in, step(c, in, s))

----------------------------------------------------------------------------
\* Vocabulary of the properties

Terminal == pc \in {"done", "stopped", "raised"}

\* The outcome of validating one item on its own, errors returned.
single_outcome(item, c) ==
    IF item.kind = "json" THEN validate_json(item, c, FALSE)
    ELSE validate_record(item, c, FALSE)

\* An item whose validation fails: it gives an error result or an exception.
Invalid(item, c) ==
    LET o == single_outcome(item, c)
    IN  o.exc # "" \/ o.ret[1].error # None

\* 1-based position of the first invalid item, 0 when every item is valid.
FirstInvalid ==
    LET bad == {i \in DOMAIN input : Invalid(input[i], cfg)}
    IN  IF bad = {} THEN 0 ELSE CHOOSE i \in bad : \A j \in bad : i <= j

EventCount(e) == Cardinality({p \in DOMAIN trace : trace[p].ev = e})

ExactlyOne(r) == (r.error = None) # (r.result = None)

YieldedTags == [i \in DOMAIN yielded |-> yielded[i].value.tag]

\* The same call with callbacks that do not raise.
Quiet(c) == [c EXCEPT !.cbRaise = FALSE]

----------------------------------------------------------------------------
\* C1: with raise_errors=False every result validate_record or validate_json
\* returns has exactly one of error / result non-null, and so has every result
\* a pipeline yields.
C1_ExactlyOneOfErrorResult ==
    /\ \A i \in DOMAIN input :
          LET o == single_outcome(input[i], cfg)
          IN  o.exc = "" => ExactlyOne(o.ret[1])
    /\ \A i \in DOMAIN yielded : ExactlyOne(yielded[i])

\* A RETURN run that yielded a failed and a successful result.
C1_Witness ==
    /\ cfg.error_option = RETURN /\ pc = "done" /\ Len(yielded) = 2
    /\ yielded[1].error # None /\ yielded[1].result = None
    /\ yielded[2].error = None /\ yielded[2].result # None

\* C2: under RETURN with no should-continue stop, the run ends normally having
\* yielded exactly one result per input item, the i-th result for the i-th
\* item, a failed item carrying its error.
C2_ReturnOnePerItemInOrder ==
    (cfg.error_option = RETURN /\ cfg.scAt = 0) =>
        /\ pc # "raised"
        /\ \A i \in DOMAIN yielded : i <= Len(input) /\ yielded[i].value.tag = i
        /\ pc = "done" => Len(yielded) = Len(input)

\* C3: under SKIP the run yields exactly the successful results of the valid
\* inputs, one each, in their original relative order.
C3_SkipYieldsValidOnly ==
    (cfg.error_option = SKIP /\ cfg.scAt = 0 /\ Terminal) =>
        /\ pc = "done"
        /\ \A i \in DOMAIN yielded : yielded[i].error = None
        /\ YieldedTags = SelectSeq([i \in DOMAIN input |-> i],
                                   LAMBDA i : ~Invalid(input[i], cfg))

\* C4: under RAISE the validation failure propagates at the first invalid
\* item: by then exactly the results of the valid items before it were
\* yielded, the before-validate hook fired once per item up to and including
\* it, no item after it is ever validated, a run with an invalid item never
\* completes, and what leaves the pipeline is the validation failure itself,
\* the oracle's error (the ValueError of a failing transform when the item
\* failed in its transform).
C4_RaiseStopsAtFirstInvalid ==
    cfg.error_option = RAISE =>
        /\ \A p \in DOMAIN trace :
              trace[p].ev = "validate" =>
                  FirstInvalid = 0 \/ trace[p].tag <= FirstInvalid
        /\ pc = "raised" =>
              /\ FirstInvalid # 0
              /\ exc = IF /\ input[FirstInvalid].kind # "json"
                          /\ transform_fails(input[FirstInvalid].data, cfg.transforms)
                       THEN "ValueError" ELSE "pydantic.ValidationError"
              /\ Len(yielded) = FirstInvalid - 1
              /\ \A i \in DOMAIN yielded :
                    yielded[i] = single_outcome(input[i], cfg).ret[1]
              /\ cfg.hooks => EventCount("before_validate") = FirstInvalid
        /\ pc = "done" => FirstInvalid = 0

\* A RAISE run with hooks that failed at its first item, a second one waiting.
C4_Witness ==
    /\ cfg.error_option = RAISE /\ cfg.hooks /\ pc = "raised"
    /\ FirstInvalid = 1 /\ Len(input) = 2
    /\ EventCount("before_validate") = 1

\* C5: with bulk enabled validate_records yields the same results, in the same
\* order, as with bulk disabled.
C5_BulkEqualsPerItem ==
    (cfg.fn = "validate_records" /\ cfg.bulk /\ Terminal) =>
        LET ref == run_to_end([cfg EXCEPT !.bulk = FALSE], input, InitialState)
        IN  yielded = ref.yielded /\ pc = ref.pc

\* C6: validate_records under RETURN never yields two results for one input
\* record, and a run that completes has yielded a result for every record.
C6_NoLossNoDuplicate ==
    (cfg.fn = "validate_records" /\ cfg.error_option = RETURN /\ cfg.scAt = 0) =>
        /\ \A i, j \in DOMAIN yielded :
              yielded[i].value.tag = yielded[j].value.tag => i = j
        /\ pc = "done" =>
              \A k \in DOMAIN input : \E i \in DOMAIN yielded : yielded[i].value.tag = k

\* C7: the value of every yielded result is the input item as supplied.
C7_ValueIsOriginal ==
    \A i \in DOMAIN yielded : yielded[i].value = input[yielded[i].value.tag]

\* C8: for each item that produces a result the events come in the order
\* before-validate, validation, after-validate, exactly one of on-success /
\* on-error by whether the error is null, should-continue; so the hooks of one
\* item never interleave with those of another.
C8_HookOrder ==
    cfg.hooks =>
        \A p \in DOMAIN trace :
            trace[p].ev = "after_validate" =>
                /\ p >= 3 /\ p + 2 <= Len(trace)
                /\ trace[p - 2].ev = "before_validate" /\ trace[p - 2].tag = trace[p].tag
                /\ trace[p - 1].ev = "validate" /\ trace[p - 1].tag = trace[p].tag
                /\ trace[p + 1].ev =
                      (IF trace[p - 1].r = "ok" THEN "on_success" ELSE "on_error")
                /\ trace[p + 1].tag = trace[p].tag
                /\ trace[p + 2].ev = "should_continue" /\ trace[p + 2].tag = trace[p].tag

\* C9: once should-continue has answered False nothing further happens, under
\* every policy and on the bulk path: that answer is the last event of the run
\* (no later validation, hook, progress callback or yield), the run has
\* stopped for good, and no further item was taken from a lazily read input.
C9_StopIsImmediate ==
    /\ \A p \in DOMAIN trace :
          (trace[p].ev = "should_continue" /\ trace[p].r = "false") =>
              /\ p = Len(trace)
              /\ pc = "stopped"
              /\ cfg.fn # "validate_records" => taken = trace[p].tag
    /\ pc = "stopped" =>
          /\ ~ENABLED Next
          /\ trace # <<>> /\ trace[Len(trace)].ev = "should_continue"

\* A run stopped by the hook at its first item with a second item waiting.
C9_Witness ==
    /\ pc = "stopped" /\ cfg.scAt = 1 /\ Len(input) = 2
    /\ yielded = <<>> /\ EventCount("should_continue") = 1

\* C10: callbacks that raise change nothing: the run ends as the same call
\* with callbacks that do not raise ends, with the same results yielded (a
\* raising should-continue counting as "continue").
C10_CallbackFailuresSwallowed ==
    Terminal =>
        LET ref == run_to_end(Quiet(cfg), input, InitialState)
        IN  yielded = ref.yielded /\ pc = ref.pc /\ exc = ref.exc

\* A completed run of two items in which every callback raised.
C10_Witness ==
    /\ cfg.cbRaise /\ cfg.hooks /\ cfg.progress /\ pc = "done"
    /\ Len(yielded) = 2 /\ EventCount("should_continue") = 2
    /\ \A p \in DOMAIN trace : trace[p].ev # "validate" /\ trace[p].ev # "yield"
                                  => trace[p].r = "raise"

----------------------------------------------------------------------------
\* Vocabulary of the progress properties

\* Number of leading trace entries written by ta.validate_python of the bulk
\* attempt (one per record), 0 when no bulk validation was run.
BulkValidated ==
    IF /\ pc # "start" /\ cfg.fn = "validate_records" /\ cfg.bulk /\ can_use_bulk(cfg)
       /\ \A i \in DOMAIN input : input[i].kind = "dict"
    THEN Len(input) ELSE 0

\* Positions of the trace at which item t's progress callback was invoked.
ProgressOf(t) == {p \in DOMAIN trace : trace[p].ev = "progress" /\ trace[p].tag = t}

\* The event at position p is e for item t.
IsEv(p, e, t) == p \in DOMAIN trace /\ trace[p].ev = e /\ trace[p].tag = t

\* C11 (as claimed): in a finished run with a progress callback, every item
\* whose validation returned had the progress callback invoked exactly once,
\* whatever the policy and the hooks.
C11_ProgressOncePerProcessedItem ==
    (cfg.progress /\ Terminal) =>
        \A i \in DOMAIN input :
            (\E p \in DOMAIN trace :
                trace[p].ev = "validate" /\ trace[p].tag = i /\ trace[p].r # "raise")
            => Cardinality(ProgressOf(i)) = 1

\* C11 (amended): the progress callback is invoked exactly once for every
\* result the pipeline produces, results dropped under SKIP included, except a
\* result for which should-continue answers False, which gets none: a yield is
\* directly preceded by its progress call, a progress call directly follows
\* the result's last hook (or its validation when there are no hooks) and
\* never another progress call, and every result that passes should-continue
\* is directly followed by its progress call.
C11_ProgressOncePerResult ==
    cfg.progress =>
        \A p \in DOMAIN trace :
            LET e == trace[p]
            IN  /\ e.ev = "yield" => IsEv(p - 1, "progress", e.tag)
                /\ e.ev = "progress" =>
                      /\ ~IsEv(p - 1, "progress", e.tag)
                      /\ cfg.hooks =>
                            IsEv(p - 1, "should_continue", e.tag) /\ trace[p - 1].r # "false"
                      /\ ~cfg.hooks =>
                            \/ IsEv(p - 1, "validate", e.tag) /\ trace[p - 1].r # "raise"
                            \/ /\ BulkValidated > 0 /\ p > BulkValidated
                               /\ trace[p - 1].ev \in {"validate", "yield"}
                /\ (e.ev = "should_continue" /\ e.r # "false") =>
                      IsEv(p + 1, "progress", e.tag)
                /\ (e.ev = "should_continue" /\ e.r = "false") =>
                      ~IsEv(p + 1, "progress", e.tag)
                /\ (~cfg.hooks /\ e.ev = "validate" /\ e.r # "raise" /\ p > BulkValidated) =>
                      IsEv(p + 1, "progress", e.tag)

\* A completed SKIP run with hooks: the first item failed and was dropped, the
\* second was yielded, and the progress callback was invoked for both.
C11_Witness ==
    /\ cfg.error_option = SKIP /\ cfg.progress /\ cfg.hooks /\ pc = "done"
    /\ Len(input) = 2 /\ YieldedTags = <<2>>
    /\ Cardinality(ProgressOf(1)) = 1 /\ Cardinality(ProgressOf(2)) = 1

\* C12: the index handed to the progress callback for an item is the item's
\* 0-based position in the input, under every policy; a result dropped under
\* SKIP still advances the counter.
C12_ProgressIndexIsPosition ==
    \A p \in DOMAIN trace :
        trace[p].ev = "progress" => trace[p].n = trace[p].tag - 1

\* A SKIP run that dropped its first item and reported the second at index 1.
C12_Witness ==
    /\ cfg.error_option = SKIP /\ cfg.progress /\ pc = "done" /\ YieldedTags = <<2>>
    /\ \E p \in DOMAIN trace :
          trace[p].ev = "progress" /\ trace[p].tag = 2 /\ trace[p].n = 1
    /\ \E p \in DOMAIN trace :
          trace[p].ev = "progress" /\ trace[p].tag = 1 /\ trace[p].n = 0

\* Item k is done with: its result was yielded, or it failed and was dropped
\* under SKIP.
Finished(k) ==
    \E p \in DOMAIN trace :
        /\ trace[p].tag = k
        /\ \/ trace[p].ev = "yield"
           \/ cfg.error_option = SKIP /\ trace[p].ev = "validate" /\ trace[p].r = "error"

\* C13: the output is produced lazily: when the input is a one-shot iterator,
\* item k+1 is taken from it only after item k is done with (yielded, or
\* dropped under SKIP), for validate_records as for validate and
\* validate_jsons.
C13_LazyOutput ==
    ~cfg.listInput =>
        \A k \in 1..(taken - 1) : Finished(k)

----------------------------------------------------------------------------
\* C14: with raise_errors=False and no transforms, validate_record returns a
\* result for every mapping or object input and every target shape: no
\* validation, coercion, missing-field, rule or construction failure leaves
\* it as an exception, so a RETURN or SKIP run never sees a validate_record
\* call raise and never ends with an exception.
C14_ValidateRecordNeverRaises ==
    (cfg.transforms = "none" /\ cfg.error_option # RAISE) =>
        /\ \A p \in DOMAIN trace :
              (trace[p].ev = "validate" /\ input[trace[p].tag].kind # "json")
                  => /\ trace[p].r # "raise"
                     /\ validate_record(input[trace[p].tag], cfg, FALSE).exc = ""
        /\ exc = ""

\* The validate_record call traced at position p was given an item on which
\* the structural caster fails.
CasterFails(p) ==
    /\ trace[p].ev = "validate" /\ input[trace[p].tag].kind # "json"
    /\ ~cast_to_annotated_class(input[trace[p].tag].data).ok

\* C15: for a plain-annotated shape a structural-caster failure (a missing
\* field or a coercion failure) surfaces from validate_record as the error
\* type of oracle failures: with raise_errors=False the call returns a result
\* whose error is of that type (and RETURN yields it), with raise_errors=True
\* the call raises that type.
C15_CasterFailureIsOracleError ==
    (cfg.shape = "plain" /\ cfg.transforms = "none" /\ ~cfg.fields /\ ~cfg.rules) =>
        \A p \in DOMAIN trace :
            CasterFails(p) =>
                IF cfg.error_option = RAISE
                THEN pc = "raised" /\ exc = "pydantic.ValidationError"
                ELSE /\ trace[p].r = "error"
                     /\ LET returned == validate_record(input[trace[p].tag], cfg, FALSE)
                        IN  /\ returned.exc = ""
                            /\ returned.ret[1].result = None
                            /\ returned.ret[1].error # None
                            /\ returned.ret[1].error[1].kind = "pydantic"

----------------------------------------------------------------------------
\* cast.py: the values the coercion engine is given and the constructors
\* cast_as applies to them ("annotation(value)")

\* Longest text, longest list or tuple, most members of a union explored.
MaxStr == 2
MaxList == 2
MaxUnion == 3

\* A Python object: its class t, its content, and gen, which tells objects
\* apart: 0 for an object the caller supplied, g + 1 for an object constructed
\* from an object of generation g.  "x is y" is equality of all fields.
\*   int: the natural n; bool: n = 1 or 0; float: the decimal n / 10^e;
\*   str: the characters txt; datetime: the text txt it was parsed from
\*   (<<>> for the caller's datetime); list, tuple, set: the elements items;
\*   dict, class instance: items = key, value, key, value, ... in order.
Object(t, n, e, txt, items, gen) ==
    [t |-> t, n |-> n, e |-> e, txt |-> txt, items |-> items, gen |-> gen]

IntObj(n, gen) == Object("int", n, 0, <<>>, <<>>, gen)
BoolObj(b, gen) == Object("bool", IF b THEN 1 ELSE 0, 0, <<>>, <<>>, gen)
FloatObj(f, gen) == Object("float", f.m, f.e, <<>>, <<>>, gen)
StrObj(txt, gen) == Object("str", 0, 0, txt, <<>>, gen)
NoneObj == Object("NoneType", 0, 0, <<>>, <<>>, 0)
DatetimeObj(txt, gen) == Object("datetime", 0, 0, txt, <<>>, gen)
ListObj(items, gen) == Object("list", 0, 0, <<>>, items, gen)
TupleObj(items, gen) == Object("tuple", 0, 0, <<>>, items, gen)
SetObj(items, gen) == Object("set", 0, 0, <<>>, items, gen)
DictObj(items, gen) == Object("dict", 0, 0, <<>>, items, gen)

\* float('inf'): the one float that is no decimal, marked by e = -1.
inf == Object("float", 1, -1, <<>>, <<>>, 0)

\* The keys and the values of a dict's items.
DictKeys(items) == [i \in 1..(Len(items) \div 2) |-> items[2 * i - 1]]
DictValues(items) == [i \in 1..(Len(items) \div 2) |-> items[2 * i]]

\* isinstance(value, annotation) for a class annotation; bool subclasses int.
isinstance(value, annotation) ==
    value.t = annotation \/ (value.t = "bool" /\ annotation = "int")

Digit == <<"0", "1", "2", "3", "4", "5", "6", "7", "8", "9">>
IsDigit(c) == \E i \in 1..10 : Digit[i] = c
DigitVal(c) == (CHOOSE i \in 1..10 : Digit[i] = c) - 1

RECURSIVE DigitsValue(_)
DigitsValue(s) ==
    IF s = <<>> THEN 0
    ELSE DigitsValue(SubSeq(s, 1, Len(s) - 1)) * 10 + DigitVal(s[Len(s)])

RECURSIVE Pow10(_)
Pow10(e) == IF e = 0 THEN 1 ELSE 10 * Pow10(e - 1)

\* The float m / 10^e with no trailing zero in its decimals.
RECURSIVE FloatOf(_, _)
FloatOf(m, e) ==
    IF e > 0 /\ m % 10 = 0 THEN FloatOf(m \div 10, e - 1) ELSE [m |-> m, e |-> e]

\* int(text): decimal digits only (no sign, blank or underscore occurs in the
\* texts explored).
int_of_str(s) ==
    IF s # <<>> /\ \A i \in DOMAIN s : IsDigit(s[i])
    THEN Return(DigitsValue(s)) ELSE Raise("ValueError")

\* float(text): the text inf, which str() makes of float('inf'), gives that
\* float back; otherwise digits with at most one point and at least one digit
\* (no sign, blank, exponent or other spelling of a non-finite float occurs in
\* the texts explored).
float_of_str(s) ==
    LET points == {i \in DOMAIN s : s[i] = "."}
        digits == SelectSeq(s, IsDigit)
        point == CHOOSE i \in points : TRUE
    IN  IF s = <<"i", "n", "f">> THEN Return([m |-> inf.n, e |-> inf.e])
        ELSE IF /\ Cardinality(points) <= 1 /\ digits # <<>>
           /\ \A i \in DOMAIN s : IsDigit(s[i]) \/ s[i] = "."
        THEN Return(FloatOf(DigitsValue(digits),
                            IF points = {} THEN 0 ELSE Len(s) - point))
        ELSE Raise("ValueError")

RECURSIVE repr_int(_)
repr_int(n) ==
    IF n < 10 THEN <<Digit[n + 1]>> ELSE repr_int(n \div 10) \o <<Digit[(n % 10) + 1]>>

\* d written with at least n digits.
RECURSIVE ZeroPad(_, _)
ZeroPad(d, n) == IF Len(d) >= n THEN d ELSE ZeroPad(<<"0">> \o d, n)

\* repr(float) in the positional notation Python uses between 1e-4 and 1e16.
repr_float(m, e) ==
    IF e = 0 THEN repr_int(m) \o <<".", "0">>
    ELSE repr_int(m \div Pow10(e)) \o <<".">> \o ZeroPad(repr_int(m % Pow10(e)), e)

\* sep.join(parts)
RECURSIVE Join(_, _)
Join(parts, sep) ==
    IF parts = <<>> THEN <<>>
    ELSE IF Len(parts) = 1 THEN parts[1]
    ELSE parts[1] \o sep \o Join(Tail(parts), sep)

\* str() and repr() of the caller's datetime, datetime(2023, 1, 1, 12, 0, 0).
str_datetime == <<"2", "0", "2", "3", "-", "0", "1", "-", "0", "1", " ", "1", "2", ":", "0", "0", ":", "0", "0">>
repr_datetime == 
    <<"d", "a", "t", "e", "t", "i", "m", "e", ".", "d", "a", "t", "e", "t", "i", "m", "e", "(", "2", "0", "2", "3", ",", " ", "1", ",", " ", "1", ",", " ", "1", "2", ",", " ", "0", ")">>

RECURSIVE repr(_)
repr(x) ==
    CASE x.t = "int" -> repr_int(x.n)
      [] x.t = "bool" -> IF x.n = 1 THEN <<"T", "r", "u", "e">> ELSE <<"F", "a", "l", "s", "e">>
      [] x.t = "float" -> IF x.e < 0 THEN <<"i", "n", "f">> ELSE repr_float(x.n, x.e)
      [] x.t = "NoneType" -> <<"N", "o", "n", "e">>
      [] x.t = "str" -> <<"'">> \o x.txt \o <<"'">>
      [] x.t = "datetime" -> repr_datetime
      [] x.t = "list" ->
            <<"[">> \o Join([i \in DOMAIN x.items |-> repr(x.items[i])], <<",", " ">>)
                \o <<"]">>
      [] x.t = "tuple" ->
            <<"(">> \o Join([i \in DOMAIN x.items |-> repr(x.items[i])], <<",", " ">>)
                \o (IF Len(x.items) = 1 THEN <<",">> ELSE <<>>) \o <<")">>
      [] x.t = "set" ->
            IF x.items = <<>> THEN <<"s", "e", "t", "(", ")">>
            ELSE <<"{">> \o Join([i \in DOMAIN x.items |-> repr(x.items[i])], <<",", " ">>)
                     \o <<"}">>
      [] x.t = "dict" ->
            <<"{">> \o Join([i \in 1..(Len(x.items) \div 2) |->
                               repr(x.items[2 * i - 1]) \o <<":", " ">>
                                   \o repr(x.items[2 * i])],
                            <<",", " ">>) \o <<"}">>

\* bool(x): Python's truth value.
truth(x) ==
    CASE x.t \in {"int", "bool", "float"} -> x.n # 0
      [] x.t = "str" -> x.txt # <<>>
      [] x.t = "NoneType" -> FALSE
      [] x.t = "datetime" -> TRUE
      [] OTHER -> x.items # <<>>

\* The classes called as "annotation(value)".  Each returns a new object
\* (its argument when that is an exact instance) or raises.
int(x) ==
    CASE x.t = "int" -> Return(x)
      [] x.t = "bool" -> Return(IntObj(x.n, x.gen + 1))
      [] x.t = "float" ->
            IF x.e < 0 THEN Raise("OverflowError")
            ELSE Return(IntObj(x.n \div Pow10(x.e), x.gen + 1))
      [] x.t = "str" ->
            LET n == int_of_str(x.txt)
            IN  IF n.exc # "" THEN n ELSE Return(IntObj(n.ret[1], x.gen + 1))
      [] OTHER -> Raise("TypeError")

float(x) ==
    CASE x.t = "float" -> Return(x)
      [] x.t \in {"int", "bool"} -> Return(FloatObj(FloatOf(x.n, 0), x.gen + 1))
      [] x.t = "str" ->
            LET f == float_of_str(x.txt)
            IN  IF f.exc # "" THEN f ELSE Return(FloatObj(f.ret[1], x.gen + 1))
      [] OTHER -> Raise("TypeError")

str(x) ==
    CASE x.t = "str" -> Return(x)
      [] x.t = "datetime" -> Return(StrObj(str_datetime, x.gen + 1))
      [] OTHER -> Return(StrObj(repr(x), x.gen + 1))

bool(x) ==
    IF x.t = "bool" THEN Return(x) ELSE Return(BoolObj(truth(x), x.gen + 1))

\* NoneType(x): "NoneType takes no arguments"
NoneType(x) == Raise("TypeError")

list(x) ==
    CASE x.t \in {"list", "tuple", "set"} -> Return(ListObj(x.items, x.gen + 1))
      [] x.t = "dict" -> Return(ListObj(DictKeys(x.items), x.gen + 1))
      [] x.t = "str" ->
            Return(ListObj([i \in DOMAIN x.txt |-> StrObj(<<x.txt[i]>>, x.gen + 1)],
                           x.gen + 1))
      [] OTHER -> Raise("TypeError")

\* annotation(value)
construct(annotation, value) ==
    CASE annotation = "int" -> int(value)
      [] annotation = "float" -> float(value)
      [] annotation = "str" -> str(value)
      [] annotation = "bool" -> bool(value)
      [] annotation = "NoneType" -> NoneType(value)
      [] annotation = "list" -> list(value)

\* dateutil.parser.parse(value): anything but text is a TypeError; a text
\* with a letter, or with no digit, is no date (ParserError); a text of
\* digits is read as a day or a year, a point between or around them as a
\* separator.
dateutil_parse(value) ==
    IF value.t # "str" THEN Raise("TypeError")
    ELSE IF /\ \E i \in DOMAIN value.txt : IsDigit(value.txt[i])
            /\ \A i \in DOMAIN value.txt : IsDigit(value.txt[i]) \/ value.txt[i] = "."
    THEN Return(DatetimeObj(value.txt, value.gen + 1))
    ELSE Raise("ParserError")

----------------------------------------------------------------------------
\* cast.py: cast_as, cast_as_union, cast_as_annotation

\* An annotation: a class, or a union of classes in declared order.
Class(name) == [origin |-> "", args |-> <<name>>]
Union(args) == [origin |-> "Union", args |-> args]

\* cast_as with every value reconstructed, instances of the target included.
cast_as_reconstructs(value, annotation) ==
    IF annotation = "datetime" THEN dateutil_parse(value)
    ELSE construct(annotation, value)

cast_as(value, annotation) ==
    IF isinstance(value, annotation) THEN Return(value)
    ELSE IF annotation = "datetime" THEN dateutil_parse(value)
    ELSE construct(annotation, value)

_is_union_type(annotation) == annotation.origin = "Union"

_get_union_args(annotation) ==
    IF annotation.origin = "Union" THEN Return(annotation.args) ELSE Raise("ValueError")

\* The exceptions the loop of cast_as_union catches.
UnionCaught == {"ValueError", "TypeError", "ParserError"}

\* One cast_as call as the log keeps it.
CastOf(value, annotation, r) == [value |-> value, annotation |-> annotation, out |-> r]

\* A loop body without the container guard: a container goes to cast_as like
\* any other value.
union_member_unguarded(value, _type) ==
    LET r == cast_as(value, _type)
    IN  IF isinstance(value, _type)
        THEN [returns |-> TRUE, out |-> Return(value), casts |-> <<>>]
        ELSE IF r.exc = "" \/ r.exc \notin UnionCaught
        THEN [returns |-> TRUE, out |-> r, casts |-> <<CastOf(value, _type, r)>>]
        ELSE [returns |-> FALSE, out |-> r, casts |-> <<CastOf(value, _type, r)>>]

\* A loop body that gives up at the first failing member: the failure of the
\* member's attempt ends the call instead of being recorded.
union_member_fails_fast(value, _type) ==
    LET single == value.t \in {"list", "tuple"} /\ Len(value.items) = 1
        guarded == /\ _type \in {"int", "float", "str", "bool"}
                   /\ value.t \in {"list", "dict", "tuple", "set"}
        arg == IF guarded THEN value.items[1] ELSE value
        r == cast_as(arg, _type)
    IN  IF isinstance(value, _type)
        THEN [returns |-> TRUE, out |-> Return(value), casts |-> <<>>]
        ELSE IF guarded /\ ~single
        THEN [returns |-> TRUE, out |-> Raise("TypeError"), casts |-> <<>>]
        ELSE [returns |-> TRUE, out |-> r, casts |-> <<CastOf(arg, _type, r)>>]

\* A loop body that never returns its argument: an instance of the member is
\* reconstructed like any other value.
union_member_reconstructs(value, _type) ==
    LET single == value.t \in {"list", "tuple"} /\ Len(value.items) = 1
        guarded == /\ _type \in {"int", "float", "str", "bool"}
                   /\ value.t \in {"list", "dict", "tuple", "set"}
        arg == IF guarded THEN value.items[1] ELSE value
        r == cast_as_reconstructs(arg, _type)
    IN  IF guarded /\ ~single
        THEN [returns |-> FALSE, out |-> Raise("TypeError"), casts |-> <<>>]
        ELSE [returns |-> r.exc = "" \/ r.exc \notin UnionCaught, out |-> r,
              casts |-> <<CastOf(arg, _type, r)>>]

\* One iteration of the loop of cast_as_union on the member _type:
\*   returns: the function returns out; otherwise _type joins attempted_types
\*   casts: the cast_as calls the iteration made
union_member(value, _type) ==
    LET single == value.t \in {"list", "tuple"} /\ Len(value.items) = 1
        guarded == /\ _type \in {"int", "float", "str", "bool"}
                   /\ value.t \in {"list", "dict", "tuple", "set"}
        arg == IF guarded THEN value.items[1] ELSE value
        r == cast_as(arg, _type)
    IN  IF isinstance(value, _type)
        THEN [returns |-> TRUE, out |-> Return(value), casts |-> <<>>]
        ELSE IF guarded /\ ~single
        THEN [returns |-> FALSE, out |-> Raise("TypeError"), casts |-> <<>>]
        ELSE IF r.exc = "" \/ r.exc \notin UnionCaught
        THEN [returns |-> TRUE, out |-> r, casts |-> <<CastOf(arg, _type, r)>>]
        ELSE [returns |-> FALSE, out |-> r, casts |-> <<CastOf(arg, _type, r)>>]

\* The loop of cast_as_union from member i on, then the final TypeError.
RECURSIVE union_loop(_, _, _)
union_loop(value, union_types, i) ==
    IF i > Len(union_types) THEN Raise("TypeError")
    ELSE LET m == union_member(value, union_types[i])
         IN  IF m.returns THEN m.out ELSE union_loop(value, union_types, i + 1)

cast_as_union(value, union_annotation) ==
    LET union_types == _get_union_args(union_annotation)
    IN  IF union_types.exc # "" THEN union_types
        ELSE union_loop(value, union_types.ret[1], 1)

cast_as_annotation(value, annotation) ==
    IF _is_union_type(annotation) THEN cast_as_union(value, annotation)
    ELSE cast_as(value, annotation.args[1])

----------------------------------------------------------------------------
\* cast.py: cast_to_annotated_class on a class given by its own annotations
\* (field name -> class) and by whether it defines __init__(self, <fields>).
\* d and new_data are the items of a dict whose keys are texts.

\* set(d.keys()), as the set of the keys' texts
Keys(items) == {items[2 * i - 1].txt : i \in 1..(Len(items) \div 2)}

\* d[key]
Get(items, key) ==
    items[2 * (CHOOSE i \in 1..(Len(items) \div 2) : items[2 * i - 1].txt = key)]

\* d[key] = value on a key d has
Put(items, key, value) ==
    [j \in DOMAIN items |->
        IF j % 2 = 0 /\ items[j - 1].txt = key THEN value ELSE items[j]]

cls_annotations(cls) == cls.annotations

\* The error set raised when declared fields are absent.
missing_errors(missing_keys, annotations) ==
    [key \in missing_keys |->
        [type |-> annotations[key], input_value |-> None, input_type |-> "NoneType",
         error |-> "Missing required field"]]

\* A loop body that reports a key the class does not declare as a failure.
field_step_extra_key_error(nd, errs, annotations, i) ==
    LET key == nd[2 * i - 1].txt
        value == nd[2 * i]
        declared == key \in DOMAIN annotations
        r == IF declared THEN cast_as_annotation(value, Class(annotations[key]))
             ELSE Raise("KeyError")
        type == IF declared THEN annotations[key] ELSE "NoneType"
    IN  IF r.exc = ""
        THEN [new_data |-> Put(nd, key, r.ret[1]), errors |-> errs,
              casts |-> <<CastOf(value, type, r)>>, raises |-> ""]
        ELSE [new_data |-> nd,
              errors |-> [k \in DOMAIN errs \cup {key} |->
                            IF k = key
                            THEN [type |-> type, input_value |-> Some(value),
                                  input_type |-> value.t, error |-> r.exc]
                            ELSE errs[k]],
              casts |-> IF declared THEN <<CastOf(value, type, r)>> ELSE <<>>,
              raises |-> ""]

\* A loop body that keeps the first failure only.
field_step_first_error_only(nd, errs, annotations, i) ==
    LET key == nd[2 * i - 1].txt
        value == nd[2 * i]
        r == cast_as_annotation(value, Class(annotations[key]))
    IN  IF key \notin DOMAIN annotations
        THEN [new_data |-> nd, errors |-> errs, casts |-> <<>>, raises |-> ""]
        ELSE IF r.exc = ""
        THEN [new_data |-> Put(nd, key, r.ret[1]), errors |-> errs,
              casts |-> <<CastOf(value, annotations[key], r)>>, raises |-> ""]
        ELSE [new_data |-> nd,
              errors |-> IF errs # <<>> THEN errs
                         ELSE [k \in {key} |->
                                 [type |-> annotations[key], input_value |-> Some(value),
                                  input_type |-> value.t, error |-> r.exc]],
              casts |-> <<CastOf(value, annotations[key], r)>>, raises |-> ""]

\* One iteration of "for key, value in new_data.items()" on item i.  The
\* branch for a nested pydantic model is not taken: no annotation here is one.
\*   raises: an exception the loop does not catch
field_step(nd, errs, annotations, i) ==
    LET key == nd[2 * i - 1].txt
        value == nd[2 * i]
        r == cast_as_annotation(value, Class(annotations[key]))
    IN  IF key \notin DOMAIN annotations
        THEN [new_data |-> nd, errors |-> errs, casts |-> <<>>, raises |-> ""]
        ELSE IF r.exc = ""
        THEN [new_data |-> Put(nd, key, r.ret[1]), errors |-> errs,
              casts |-> <<CastOf(value, annotations[key], r)>>, raises |-> ""]
        ELSE IF r.exc \in {"ValueError", "TypeError", "ParserError", "KeyError"}
        THEN [new_data |-> nd,
              errors |-> [k \in DOMAIN errs \cup {key} |->
                            IF k = key
                            THEN [type |-> annotations[key], input_value |-> Some(value),
                                  input_type |-> value.t, error |-> r.exc]
                            ELSE errs[k]],
              casts |-> <<CastOf(value, annotations[key], r)>>, raises |-> ""]
        ELSE [new_data |-> nd, errors |-> errs,
              casts |-> <<CastOf(value, annotations[key], r)>>, raises |-> r.exc]

\* raise ValidationError(errors): every 'type' here is a class.
raise_validation_error(errs) ==
    LET e == ValidationError_init({[field |-> k, typeIsClass |-> TRUE] : k \in DOMAIN errs})
    IN  IF e.exc # "" THEN e ELSE Raise("cast.ValidationError")

\* The instance built from new_data.  With an __init__ whose parameters are
\* the fields, cls(**new_data) sets every field when new_data has no other
\* key and raises TypeError when it has; then, as for a class without
\* __init__, the instance comes from __new__ and setattr of every item of
\* new_data.  Either way the attributes are the items of new_data.
instantiate(cls, nd) == Return(Object("Plain", 0, 0, <<>>, nd, 1))

\* The loop over new_data.items() from item i on; fields_loop_after takes it
\* up after the step f of item i.
RECURSIVE fields_loop(_, _, _, _)
fields_loop_after(f, annotations, i) ==
    IF f.raises # "" THEN [new_data |-> f.new_data, errors |-> f.errors, raises |-> f.raises]
    ELSE fields_loop(f.new_data, f.errors, annotations, i + 1)

fields_loop(nd, errs, annotations, i) ==
    IF 2 * i > Len(nd) THEN [new_data |-> nd, errors |-> errs, raises |-> ""]
    ELSE fields_loop_after(field_step(nd, errs, annotations, i), annotations, i)

\* cast_to_annotated_class(d, cls) on the values of the coercion engine, as one
\* function: its outcome and the error set it raises.
cast_to_annotated_class_call(d, cls) ==
    LET annotations == cls_annotations(cls)
        missing_keys == DOMAIN annotations \ Keys(d.items)
        missing == missing_errors(missing_keys, annotations)
        loop == fields_loop(d.items, <<>>, annotations, 1)
    IN  IF missing_keys # {}
        THEN [outcome |-> raise_validation_error(missing), errors |-> missing]
        ELSE IF loop.raises # "" THEN [outcome |-> Raise(loop.raises), errors |-> loop.errors]
        ELSE IF loop.errors # <<>>
        THEN [outcome |-> raise_validation_error(loop.errors), errors |-> loop.errors]
        ELSE [outcome |-> instantiate(cls, loop.new_data), errors |-> loop.errors]

----------------------------------------------------------------------------
\* The calls into cast.py explored

Chars == {"5", ".", "x"}
Texts == UNION {[1..n -> Chars] : n \in 0..MaxStr}

\* The caller's datetime.
DT == DatetimeObj(<<>>, 0)

Scalars ==
    {IntObj(0, 0), IntObj(5, 0), BoolObj(TRUE, 0), BoolObj(FALSE, 0),
     FloatObj(FloatOf(55, 1), 0), FloatObj(FloatOf(0, 0), 0), inf, NoneObj, DT}
    \cup {StrObj(t, 0) : t \in Texts}

\* The elements of the flat lists and tuples explored.
Elements == {IntObj(5, 0), StrObj(<<"5">>, 0), StrObj(<<"x">>, 0)}
Flat == UNION {[1..n -> Elements] : n \in 0..MaxList}
Lists == {ListObj(q, 0) : q \in Flat}
Tuples == {TupleObj(q, 0) : q \in Flat}
Dicts ==
    {DictObj(<<>>, 0),
     DictObj(<<StrObj(<<"5">>, 0), IntObj(5, 0)>>, 0),
     DictObj(<<StrObj(<<"5">>, 0), IntObj(5, 0), StrObj(<<"x">>, 0), IntObj(0, 0)>>, 0)}
Sets ==
    {SetObj(<<>>, 0), SetObj(<<IntObj(5, 0)>>, 0), SetObj(<<IntObj(0, 0), IntObj(5, 0)>>, 0)}
Collections == Lists \cup Tuples \cup Dicts \cup Sets

\* A list, a dict or a set as the only element of a list or of a tuple.
Wrapped ==
    {ListObj(<<c>>, 0) : c \in Lists \cup Dicts \cup Sets}
    \cup {TupleObj(<<c>>, 0) : c \in Lists \cup Dicts \cup Sets}

Values == Scalars \cup Collections \cup Wrapped

Classes == {"int", "float", "str", "bool", "NoneType", "list", "datetime"}

\* Union[...] of two or more distinct classes, in declared order.
Unions ==
    {Union(args) : args \in
        {q \in UNION {[1..n -> Classes] : n \in 2..MaxUnion} :
            \A i, j \in DOMAIN q : q[i] = q[j] => i = j}}

\* The classes cast_to_annotated_class is given: their own annotations over
\* the fields a and b, with or without an __init__.
FieldClasses == {"int", "float", "str"}
PlainClasses ==
    {[annotations |-> a, init |-> i] :
        a \in UNION {[F -> FieldClasses] : F \in {{}, {<<"a">>}, {<<"a">>, <<"b">>}}},
        i \in BOOLEAN}

\* The mappings cast_to_annotated_class is given: any of the keys a, b and the
\* undeclared x, in any insertion order.
FieldValues == {IntObj(5, 0), StrObj(<<"5">>, 0), StrObj(<<"x">>, 0), inf}
Mappings ==
    UNION {{DictObj([j \in 1..(2 * Len(ks)) |->
                        IF j % 2 = 1 THEN StrObj(<<ks[(j + 1) \div 2]>>, 0)
                        ELSE f[j \div 2]], 0) :
                f \in [DOMAIN ks -> FieldValues]} :
           ks \in {q \in UNION {[1..n -> {"a", "b", "x"}] : n \in 0..3} :
                       \A i, j \in DOMAIN q : q[i] = q[j] => i = j}}

----------------------------------------------------------------------------
\* The state machine of one call into cast.py

\* No pipeline is running.
PipeIdle ==
    /\ cfg = <<>> /\ input = <<>> /\ pc = "idle" /\ taken = 0 /\ work = <<>> /\ pos = 0
    /\ index = 0 /\ total = None /\ vmodels = <<>> /\ yielded = <<>> /\ trace = <<>>
    /\ exc = ""

NoOutcome == [ret |-> None, exc |-> ""]

\* The call explored: cast_as on a class, cast_as_annotation on a class or a
\* union, cast_as_union on a union (or on a class, which it rejects), and
\* cast_to_annotated_class.
CastInit ==
    /\ PipeIdle /\ AsyncIdle /\ RuleIdle /\ HeapIdle
    /\ \/ \E v \in Values, c \in Classes :
             call = [fn |-> "cast_as", value |-> v, annotation |-> Class(c)]
       \/ \E v \in Values, a \in Unions \cup {Class(c) : c \in Classes} :
             call = [fn |-> "cast_as_annotation", value |-> v, annotation |-> a]
       \/ \E v \in Values, a \in Unions \cup {Class("int")} :
             call = [fn |-> "cast_as_union", value |-> v, annotation |-> a]
       \/ \E d \in Mappings, cls \in PlainClasses :
             call = [fn |-> "cast_to_annotated_class", value |-> d, annotation |-> cls]
    /\ cpc = "called" /\ member = 0 /\ attempted = <<>>
    /\ new_data = <<>> /\ errors = <<>> /\ casts = <<>> /\ outcome = NoOutcome

\* The call ends with the outcome r.
Ends(r) ==
    /\ outcome' = r
    /\ cpc' = IF r.exc = "" THEN "returned" ELSE "raised"

\* cast_as(value, annotation)
CastAs ==
    /\ cpc = "called" /\ call.fn = "cast_as"
    /\ LET r == cast_as(call.value, call.annotation.args[1])
       IN  Ends(r) /\ casts' = <<CastOf(call.value, call.annotation.args[1], r)>>
    /\ UNCHANGED <<call, member, attempted, new_data, errors>>
    /\ UNCHANGED <<pipevars, asyncvars, rulevars, heapvars>>

\* cast_as_annotation(value, annotation): a union goes to cast_as_union.
CastAsAnnotation ==
    /\ cpc = "called" /\ call.fn = "cast_as_annotation"
    /\ IF _is_union_type(call.annotation)
       THEN cpc' = "union_loop" /\ UNCHANGED <<casts, outcome>>
       ELSE LET r == cast_as(call.value, call.annotation.args[1])
            IN  Ends(r) /\ casts' = <<CastOf(call.value, call.annotation.args[1], r)>>
    /\ UNCHANGED <<call, member, attempted, new_data, errors>>
    /\ UNCHANGED <<pipevars, asyncvars, rulevars, heapvars>>

\* cast_as_union(value, union_annotation) up to its loop.
CastAsUnion ==
    /\ cpc = "called" /\ call.fn = "cast_as_union"
    /\ LET union_types == _get_union_args(call.annotation)
       IN  IF union_types.exc # "" THEN Ends(union_types)
           ELSE cpc' = "union_loop" /\ UNCHANGED outcome
    /\ UNCHANGED <<call, member, attempted, new_data, errors, casts>>
    /\ UNCHANGED <<pipevars, asyncvars, rulevars, heapvars>>

\* One iteration of the loop of cast_as_union.
UnionMember ==
    /\ cpc = "union_loop" /\ member < Len(call.annotation.args)
    /\ LET _type == call.annotation.args[member + 1]
           m == union_member(call.value, _type)
       IN  /\ member' = member + 1
           /\ casts' = casts \o m.casts
           /\ IF m.returns THEN Ends(m.out) /\ UNCHANGED attempted
              ELSE attempted' = Append(attempted, _type) /\ UNCHANGED <<cpc, outcome>>
    /\ UNCHANGED <<call, new_data, errors>>
    /\ UNCHANGED <<pipevars, asyncvars, rulevars, heapvars>>

\* The loop of cast_as_union is over: raise TypeError(... attempted_types).
UnionExhausted ==
    /\ cpc = "union_loop" /\ member = Len(call.annotation.args)
    /\ Ends(Raise("TypeError"))
    /\ UNCHANGED <<call, member, attempted, new_data, errors, casts>>
    /\ UNCHANGED <<pipevars, asyncvars, rulevars, heapvars>>

\* A missing-keys check that is no gate: the absent fields are recorded and
\* the loop over the present fields runs all the same.
ClassCall_missing_merged ==
    /\ cpc = "called" /\ call.fn = "cast_to_annotated_class"
    /\ LET annotations == cls_annotations(call.annotation)
           missing_keys == DOMAIN annotations \ Keys(call.value.items)
       IN  /\ errors' = IF missing_keys # {} THEN missing_errors(missing_keys, annotations)
                         ELSE errors
           /\ new_data' = call.value.items
           /\ cpc' = "fields_loop"
           /\ UNCHANGED outcome
    /\ UNCHANGED <<call, member, attempted, casts>>
    /\ UNCHANGED <<pipevars, asyncvars, rulevars, heapvars>>

\* cast_to_annotated_class(d, cls) up to its loop: the missing-keys check.
ClassCall ==
    /\ cpc = "called" /\ call.fn = "cast_to_annotated_class"
    /\ LET annotations == cls_annotations(call.annotation)
           missing_keys == DOMAIN annotations \ Keys(call.value.items)
       IN  IF missing_keys # {}
           THEN /\ errors' = missing_errors(missing_keys, annotations)
                /\ Ends(raise_validation_error(errors'))
                /\ UNCHANGED new_data
           ELSE /\ new_data' = call.value.items
                /\ cpc' = "fields_loop"
                /\ UNCHANGED <<errors, outcome>>
    /\ UNCHANGED <<call, member, attempted, casts>>
    /\ UNCHANGED <<pipevars, asyncvars, rulevars, heapvars>>

\* One iteration of the loop over new_data.items().
ClassField ==
    /\ cpc = "fields_loop" /\ 2 * member < Len(new_data)
    /\ LET f == field_step(new_data, errors, cls_annotations(call.annotation), member + 1)
       IN  /\ member' = member + 1
           /\ new_data' = f.new_data
           /\ errors' = f.errors
           /\ casts' = casts \o f.casts
           /\ IF f.raises # "" THEN Ends(Raise(f.raises)) ELSE UNCHANGED <<cpc, outcome>>
    /\ UNCHANGED <<call, attempted>>
    /\ UNCHANGED <<pipevars, asyncvars, rulevars, heapvars>>

\* After the loop: raise the collected errors, or build the instance.
ClassFinish ==
    /\ cpc = "fields_loop" /\ 2 * member = Len(new_data)
    /\ IF errors # <<>> THEN Ends(raise_validation_error(errors))
       ELSE Ends(instantiate(call.annotation, new_data))
    /\ UNCHANGED <<call, member, attempted, new_data, errors, casts>>
    /\ UNCHANGED <<pipevars, asyncvars, rulevars, heapvars>>

CastNext ==
    \/ CastAs
    \/ CastAsAnnotation
    \/ CastAsUnion
    \/ UnionMember
    \/ UnionExhausted
    \/ ClassCall
    \/ ClassField
    \/ ClassFinish

SpecCast == CastInit /\ [][CastNext]_vars

----------------------------------------------------------------------------
\* Properties of the coercion engine, over the runs of SpecCast

\* A call of fn has returned.
Returned(fn) == cpc = "returned" /\ call.fn = fn

\* C16: cast_as returns the very object it was given whenever that object is
\* already an instance of the annotation (no reconstruction), and casting the
\* result of a successful cast_as again to the same annotation returns that
\* very result.
C16_CastAsIdentityIdempotent ==
    Returned("cast_as") =>
        LET T == call.annotation.args[1]
            w == outcome.ret[1]
        IN  /\ isinstance(call.value, T) => w = call.value
            /\ isinstance(w, T)
            /\ cast_as(w, T) = Return(w)

\* The caller's list [5] cast to list comes back as the caller's own object.
C16_Witness ==
    /\ Returned("cast_as")
    /\ call.value = ListObj(<<IntObj(5, 0)>>, 0)
    /\ call.annotation = Class("list")
    /\ outcome = Return(ListObj(<<IntObj(5, 0)>>, 0))
    /\ cast_as(outcome.ret[1], "list") = outcome

\* A call that resolves a union has ended.
UnionCallEnded ==
    /\ cpc \in {"returned", "raised"}
    /\ call.fn \in {"cast_as_union", "cast_as_annotation"}
    /\ _is_union_type(call.annotation)

\* The position of the first member value is an instance of, 0 when none.
FirstMatch(value, union_types) ==
    LET matching == {k \in DOMAIN union_types : isinstance(value, union_types[k])}
    IN  IF matching = {} THEN 0
        ELSE CHOOSE k \in matching : \A j \in matching : k <= j

\* C17 as stated: a value that is an instance of some member of the union is
\* returned unchanged, wherever that member stands in the declared order.
C17_UnionInstanceUnchanged ==
    (UnionCallEnded /\ FirstMatch(call.value, call.annotation.args) # 0) =>
        outcome = Return(call.value)

\* C17 amended: a value that is an instance of a member is returned unchanged
\* when every earlier member in declared order rejects it; when an earlier
\* member coerces it, the call returns that member's result, an instance of
\* the earlier member and another object than the value; when an earlier
\* member's coercion raises an exception the loop does not catch, that
\* exception ends the call.  No member after the matching one is reached.
C17_UnionInstanceUnchangedUnlessCoercedEarlier ==
    (UnionCallEnded /\ FirstMatch(call.value, call.annotation.args) # 0) =>
        LET union_types == call.annotation.args
            k == FirstMatch(call.value, union_types)
        IN  /\ member <= k
            /\ attempted = SubSeq(union_types, 1, member - 1)
            /\ member = k => outcome = Return(call.value)
            /\ member < k =>
                  /\ casts # <<>> /\ casts[Len(casts)].out = outcome
                  /\ \/ /\ cpc = "returned"
                        /\ outcome.ret[1] # call.value
                        /\ isinstance(outcome.ret[1], union_types[member])
                     \/ /\ cpc = "raised"
                        /\ outcome.exc \notin UnionCaught

\* None against Optional[int] = Union[int, None]: int rejects None, the second
\* member matches and None itself comes back.
C17_Witness ==
    /\ UnionCallEnded
    /\ call.value = NoneObj
    /\ call.annotation = Union(<<"int", "NoneType">>)
    /\ member = 2 /\ attempted = <<"int">>
    /\ outcome = Return(NoneObj)

\* The value is a list, a dict, a tuple or a set.
IsContainer(value) == value.t \in {"list", "dict", "tuple", "set"}

\* C18: cast_as_union takes the members in declared order; every member whose
\* attempt fails is recorded in attempted_types and the next one is tried; the
\* call returns the outcome of the first member the value matches by type or
\* is coerced to, and makes no attempt on a later member; it raises TypeError
\* only when every member has failed.  For a value that is no container, a
\* member's attempt is cast_as(value, member).
C18_UnionFirstSuccessInDeclaredOrder ==
    UnionCallEnded =>
        LET union_types == call.annotation.args
            Pos(t) == CHOOSE j \in DOMAIN union_types : union_types[j] = t
            Fails(j) == cast_as(call.value, union_types[j]).exc \in UnionCaught
        IN  /\ attempted = SubSeq(union_types, 1, Len(attempted))
            /\ \A i \in DOMAIN casts :
                  /\ casts[i].annotation \in {union_types[j] : j \in 1..member}
                  /\ casts[i].out = cast_as(casts[i].value, casts[i].annotation)
                  /\ \A i2 \in DOMAIN casts :
                        i < i2 => /\ Pos(casts[i].annotation) < Pos(casts[i2].annotation)
                                  /\ casts[i].out.exc \in UnionCaught
            /\ cpc = "returned" =>
                  /\ member = Len(attempted) + 1
                  /\ \/ outcome = Return(call.value) /\ isinstance(call.value, union_types[member])
                     \/ /\ casts # <<>>
                        /\ casts[Len(casts)].annotation = union_types[member]
                        /\ casts[Len(casts)].out = outcome
                  /\ ~IsContainer(call.value) =>
                        /\ outcome = cast_as(call.value, union_types[member])
                        /\ \A j \in 1..(member - 1) : Fails(j)
            /\ cpc = "raised" =>
                  /\ outcome = Raise("TypeError")
                  /\ member = Len(union_types) /\ attempted = union_types
                  /\ \A i \in DOMAIN casts : casts[i].out.exc \in UnionCaught
                  /\ ~IsContainer(call.value) => \A j \in DOMAIN union_types : Fails(j)
            /\ (call.value = StrObj(<<"5">>, 0) /\ union_types = <<"int", "str">>) =>
                  outcome = Return(IntObj(5, 1))

\* A text that is no number against Union[int, str, list]: int fails and is
\* recorded, str matches and the text comes back unchanged, list is never
\* attempted.
C18_Witness ==
    /\ UnionCallEnded
    /\ call.fn = "cast_as_union"
    /\ call.value = StrObj(<<"x">>, 0)
    /\ call.annotation = Union(<<"int", "str", "list">>)
    /\ attempted = <<"int">> /\ member = 2
    /\ casts = <<CastOf(call.value, "int", Raise("ValueError"))>>
    /\ outcome = Return(call.value)

\* len(x) of a container.
Size(x) == IF x.t = "dict" THEN Len(x.items) \div 2 ELSE Len(x.items)

\* A collection holding more than one element.
MultiElement(x) == IsContainer(x) /\ Size(x) > 1

\* C19: a union call never returns an int, a float, a str or a bool when the
\* value is a collection of more than one element, or a list or tuple whose
\* single element is such a collection.
C19_NoScalarFromMultiElementCollection ==
    (UnionCallEnded /\ cpc = "returned"
        /\ outcome.ret[1].t \in {"int", "float", "str", "bool"}) =>
        /\ ~MultiElement(call.value)
        /\ ~(/\ call.value.t \in {"list", "tuple"}
             /\ Len(call.value.items) = 1
             /\ MultiElement(call.value.items[1]))

\* The declared fields the mapping of the call does not have.
AbsentFields == DOMAIN cls_annotations(call.annotation) \ Keys(call.value.items)

\* C20: when a declared field is absent from the mapping,
\* cast_to_annotated_class fails with an error set whose keys are exactly the
\* absent declared fields, each marked 'Missing required field'; no present
\* field is coerced, before or after, so the set holds no type error.
C20_MissingFieldHardGate ==
    (call.fn = "cast_to_annotated_class" /\ AbsentFields # {}) =>
        /\ cpc \in {"called", "raised"}
        /\ casts = <<>> /\ new_data = <<>> /\ member = 0
        /\ cpc = "raised" =>
              /\ outcome = Raise("cast.ValidationError")
              /\ DOMAIN errors = AbsentFields
              /\ \A key \in AbsentFields :
                    errors[key] =
                        [type |-> cls_annotations(call.annotation)[key],
                         input_value |-> None, input_type |-> "NoneType",
                         error |-> "Missing required field"]

\* {'a': 'x'} against a class declaring a: int and b: str: only b is reported,
\* although 'x' is no int.
C20_Witness ==
    /\ cpc = "raised"
    /\ call.fn = "cast_to_annotated_class"
    /\ call.value = DictObj(<<StrObj(<<"a">>, 0), StrObj(<<"x">>, 0)>>, 0)
    /\ DOMAIN call.annotation.annotations = {<<"a">>, <<"b">>}
    /\ call.annotation.annotations[<<"a">>] = "int"
    /\ call.annotation.annotations[<<"b">>] = "str"
    /\ DOMAIN errors = {<<"b">>}
    /\ errors[<<"b">>].error = "Missing required field"
    /\ casts = <<>>

\* A call of cast_to_annotated_class on a mapping that has every declared
\* field has ended.
ClassCallEnded ==
    /\ cpc \in {"returned", "raised"}
    /\ call.fn = "cast_to_annotated_class"
    /\ AbsentFields = {}

\* The declared fields whose value in the mapping of the call cannot be
\* coerced to the field's annotation.
FailingFields ==
    LET annotations == cls_annotations(call.annotation)
    IN  {key \in DOMAIN annotations :
            cast_as_annotation(Get(call.value.items, key), Class(annotations[key])).exc # ""}

\* C21: when no declared field is absent, cast_to_annotated_class fails if and
\* only if some declared field fails coercion, and the keys of the error set
\* are then exactly the declared fields whose coercion fails, whatever the
\* order of the mapping's items; every declared field is coerced once.
C21_AllFailingFieldsReported ==
    ClassCallEnded =>
        /\ cpc = "raised" <=> FailingFields # {}
        /\ DOMAIN errors = FailingFields
        /\ cpc = "raised" => outcome = Raise("cast.ValidationError")
        /\ \A key \in FailingFields :
              /\ errors[key].type = cls_annotations(call.annotation)[key]
              /\ errors[key].input_value = Some(Get(call.value.items, key))
        /\ Len(casts) = Cardinality(DOMAIN cls_annotations(call.annotation))

\* {'b': 'x', 'a': 'x'} against a class declaring a: int and b: float: both
\* fields are reported, b having failed first.
C21_Witness ==
    /\ ClassCallEnded
    /\ call.value = DictObj(<<StrObj(<<"b">>, 0), StrObj(<<"x">>, 0),
                              StrObj(<<"a">>, 0), StrObj(<<"x">>, 0)>>, 0)
    /\ cls_annotations(call.annotation) = [k \in {<<"a">>, <<"b">>} |->
                                              IF k = <<"a">> THEN "int" ELSE "float"]
    /\ DOMAIN errors = {<<"a">>, <<"b">>}
    /\ casts[1].annotation = "float"
    /\ outcome = Raise("cast.ValidationError")

\* The items of a dict whose key is among keys, in order.
RECURSIVE ItemsOf(_, _)
ItemsOf(items, keys) ==
    IF items = <<>> THEN <<>>
    ELSE (IF items[1].txt \in keys THEN <<items[1], items[2]>> ELSE <<>>)
             \o ItemsOf(SubSeq(items, 3, Len(items)), keys)

\* C22: keys the class does not declare never make cast_to_annotated_class
\* fail and change nothing else: the call on a mapping ends as the call on the
\* same mapping without its undeclared keys does, with the same error set, and
\* on success the declared fields of the instance hold the same coerced values.
C22_ExtraKeysIgnored ==
    (cpc \in {"returned", "raised"} /\ call.fn = "cast_to_annotated_class") =>
        LET declared == DOMAIN cls_annotations(call.annotation)
            d == DictObj(ItemsOf(call.value.items, declared), 0)
            without == cast_to_annotated_class_call(d, call.annotation)
        IN  /\ outcome.exc = without.outcome.exc
            /\ errors = without.errors
            /\ DOMAIN errors \subseteq declared
            /\ cpc = "returned" =>
                  ItemsOf(outcome.ret[1].items, declared) = without.outcome.ret[1].items

\* {'x': 'x', 'a': '5'} against a class declaring a: int with an __init__ that
\* takes a: the instance holds the int 5 under a, and x as given.
C22_Witness ==
    /\ cpc = "returned"
    /\ call.fn = "cast_to_annotated_class"
    /\ call.value = DictObj(<<StrObj(<<"x">>, 0), StrObj(<<"x">>, 0),
                              StrObj(<<"a">>, 0), StrObj(<<"5">>, 0)>>, 0)
    /\ call.annotation = [annotations |-> [k \in {<<"a">>} |-> "int"], init |-> TRUE]
    /\ outcome.ret[1].items = <<StrObj(<<"x">>, 0), StrObj(<<"x">>, 0),
                                StrObj(<<"a">>, 0), IntObj(5, 1)>>

----------------------------------------------------------------------------
\* Properties of the pipeline's stages, over the runs of Spec

\* The positions of the records on which the record-level transform returns
\* a non-mapping.
TransformFailures ==
    {k \in DOMAIN input :
        input[k].kind # "json" /\ transform_fails(input[k].data, cfg.transforms)}

\* C23: a record on which a record-level transform returns a non-mapping is
\* never turned into a result and never skipped: under every error policy and
\* in bulk mode the run cannot complete, and once the record is reached the
\* ValueError of the transform leaves the pipeline at once.
C23_TransformFailurePropagates ==
    TransformFailures # {} =>
        /\ \A i \in DOMAIN yielded : yielded[i].value.tag \notin TransformFailures
        /\ pc # "done"
        /\ \A p \in DOMAIN trace :
              (trace[p].ev = "validate" /\ trace[p].tag \in TransformFailures) =>
                  /\ trace[p].r = "raise" /\ p = Len(trace)
                  /\ pc = "raised" /\ exc = "ValueError"

\* The validate_record call traced at position p was given an item that
\* passes type validation and fails the configured rule.
RuleFails(p) ==
    /\ trace[p].ev = "validate" /\ input[trace[p].tag].kind # "json"
    /\ LET typed == validate_record(input[trace[p].tag], [cfg EXCEPT !.rules = FALSE], FALSE)
       IN  /\ typed.exc = "" /\ typed.ret[1].error = None
           /\ RuleValidator_validate(typed.ret[1].result[1]) # {}

\* C24: when type validation succeeds and a rule fails, validate_record
\* returns a result with error non-null and result null (RETURN yields it);
\* with raise_errors=True it raises the validation-failure type that type
\* errors raise.
C24_RuleFailureIsErrorResult ==
    (cfg.rules /\ ~cfg.project /\ ~cfg.bulk) =>
        \A p \in DOMAIN trace :
            RuleFails(p) =>
                IF cfg.error_option = RAISE
                THEN pc = "raised" /\ exc = "pydantic.ValidationError"
                ELSE /\ trace[p].r = "error"
                     /\ LET returned == validate_record(input[trace[p].tag], cfg, FALSE)
                        IN  /\ returned.exc = ""
                            /\ returned.ret[1].result = None
                            /\ returned.ret[1].error # None

\* The record results yielded with a validated instance.
Projected ==
    {i \in DOMAIN yielded : yielded[i].value.kind # "json" /\ yielded[i].result # None}

\* C25: when project_fields is given and validation succeeds, the validated
\* instance in the result exposes only the requested fields, those of them that
\* exist on the instance, and nothing else, whether the target shape is
\* oracle-backed or plain-annotated.
C25_ProjectionExposesOnlyRequested ==
    cfg.project =>
        \A i \in Projected :
            DOMAIN yielded[i].result[1].attrs \subseteq ProjectArg

\* The result of text validation of an item: the oracle's verdict on the text
\* as it was given, with none of the optional stages.
TextResult(item) ==
    LET v == model_validate_json(item.data)
    IN  ValidationResult(IF v.exc = "" THEN None
                         ELSE Some([kind |-> "pydantic", type |-> "oracle"]),
                         v.ret, item)

\* C26: in validate over a mixed sequence every text item (str, bytes,
\* bytearray) gets the result of text validation, untouched by fields,
\* transforms, rules and projection, every other item gets the result of
\* record validation with the call's options, and the results are yielded in
\* the input order of the mixed sequence.
C26_MixedDispatchKeepsOrder ==
    cfg.fn = "validate" =>
        /\ \A i \in DOMAIN yielded :
              LET item == yielded[i].value
              IN  /\ item = input[item.tag]
                  /\ IF item.kind = "json"
                     THEN yielded[i] = TextResult(item)
                     ELSE Return(yielded[i]) = validate_record(item, cfg, FALSE)
        /\ \A i, j \in DOMAIN yielded :
              i < j => yielded[i].value.tag < yielded[j].value.tag

\* A mixed call with projection has yielded a mapping's projected instance and
\* then a text's whole instance.
C26_Witness ==
    /\ cfg.fn = "validate" /\ cfg.project /\ Len(yielded) = 2
    /\ yielded[1].value.kind = "dict" /\ yielded[2].value.kind = "json"
    /\ yielded[1].result # None /\ yielded[2].result # None
    /\ "b" \notin DOMAIN yielded[1].result[1].attrs
    /\ "b" \in DOMAIN yielded[2].result[1].attrs

----------------------------------------------------------------------------
\* async_validate.py: the concurrent path (async_validate_records,
\* async_validate_jsons, async_validate).  A call is one asynchronous
\* generator and, over a materialized input, one task per item; a task waits
\* at the semaphore, runs its validation in a thread and finishes, and the
\* generator takes the finished tasks in completion order.

\* Most items given to a concurrent call.
MaxTasks == 3
\* Longest PYTHON_MAX_WORKERS text explored.
MaxEnv == 2

\* int(text) for the texts of the environment: an optional minus sign, then
\* decimal digits.
int_of_text(s) ==
    LET negative == s # <<>> /\ s[1] = "-"
        v == int_of_str(IF negative THEN Tail(s) ELSE s)
    IN  IF v.exc # "" THEN v
        ELSE IF negative THEN Return(0 - v.ret[1]) ELSE v

\* min(...)
min(S) == CHOOSE x \in S : \A y \in S : x <= y

\* os.cpu_count() or 1
cpu_count_or_1(env) == IF env.cpu_count = None THEN 1 ELSE env.cpu_count[1]

\* env_workers_int of async_validate_jsons: the override when it is set and
\* int() accepts it, else 1.
env_workers_int(env) ==
    LET env_workers == env.PYTHON_MAX_WORKERS
    IN  IF env_workers = None THEN 1
        ELSE IF int_of_text(env_workers[1]).exc # "" THEN 1
        ELSE int_of_text(env_workers[1]).ret[1]

\* default_max_workers with the override taken as it is, uncapped.
default_max_workers_uncapped(c, env) ==
    IF c.max_workers # None THEN c.max_workers[1]
    ELSE IF c.fn = "async_validate_jsons" THEN env_workers_int(env)
    ELSE min({32, cpu_count_or_1(env)})

\* max_workers after "if max_workers is None": the argument, or the default.
default_max_workers(c, env) ==
    IF c.max_workers # None THEN c.max_workers[1]
    ELSE IF c.fn = "async_validate_jsons"
    THEN min({32, env_workers_int(env), cpu_count_or_1(env)})
    ELSE min({32, cpu_count_or_1(env)})

\* The options validate_record sees when the concurrent path calls it.
record_options(c) ==
    [shape |-> c.shape, transforms |-> "none", fields |-> FALSE, rules |-> FALSE,
     project |-> FALSE]

\* The attributes of the object that async_validate.py knows as _validate.
\* The package's __init__ runs "from dydactic.validate import validate" first,
\* which rebinds the package attribute "validate" from the module to the
\* function; "from . import validate as _validate" in async_validate.py then
\* gets that function, which has neither validate_record nor validate_json.
validate_alias_attributes == {}

\* async_validate_record: _validate.validate_record is looked up, then run in
\* a thread with the target shape and none of fields, transforms, rules,
\* project_fields.
async_validate_record(c, record) ==
    IF "validate_record" \notin validate_alias_attributes THEN Raise("AttributeError")
    ELSE validate_record(record, record_options(c), c.error_option = RAISE)

\* async_validate_json: _validate.validate_json is looked up, then run in a
\* thread.
async_validate_json(c, json) ==
    IF "validate_json" \notin validate_alias_attributes THEN Raise("AttributeError")
    ELSE validate_json(json, c, c.error_option = RAISE)

\* validate_with_semaphore / validate_one once admitted: the item's validation.
\* An exception of the validation is the task's exception.
validate_one(c, record) ==
    IF c.fn = "async_validate_jsons" \/ (c.fn = "async_validate" /\ record.kind = "json")
    THEN async_validate_json(c, record)
    ELSE async_validate_record(c, record)

\* What the generator does with a result: progress callback, then drop it
\* (SKIP), raise its error (RAISE) or yield it.
handle_result(c, s, result, idx) ==
    LET pg == call_on_progress(c, idx, s.total, result)
        tr == s.trace \o pg.log
    IN  IF result.error # None /\ c.error_option = SKIP
        THEN [s EXCEPT !.pos = @ + 1, !.trace = tr]
        ELSE IF result.error # None /\ c.error_option = RAISE
        THEN [s EXCEPT !.pos = @ + 1, !.pc = "raised",
                       !.exc = "pydantic.ValidationError", !.trace = tr]
        ELSE [s EXCEPT !.pos = @ + 1,
                       !.trace = tr \o <<Ev("yield", result.value.tag, "ok")>>,
                       !.yielded = Append(@, result)]

\* One iteration of "for coro in asyncio.as_completed(tasks)": await the next
\* finished task, whose exception, if it has one, leaves the generator.
as_completed_iteration(c, s, done) ==
    LET idx == done[s.pos + 1] - 1
        out == validate_one(c, s.work[idx + 1])
    IN  IF out.exc # "" THEN [s EXCEPT !.pos = @ + 1, !.pc = "raised", !.exc = out.exc]
        ELSE handle_result(c, s, out.ret[1], idx)

\* One iteration of "async for record in records": the item is validated
\* before the next one is taken.
async_for_iteration(c, in, s) ==
    LET record == in[s.pos + 1]
        out == validate_one(c, record)
        s1 == [s EXCEPT !.taken = @ + 1, !.index = @ + 1]
    IN  IF out.exc # ""
        THEN [s EXCEPT !.taken = @ + 1, !.pos = @ + 1, !.pc = "raised", !.exc = out.exc]
        ELSE LET s2 == handle_result(c, s1, out.ret[1], s.index)
             IN  IF s2.pc = "raised" THEN [s2 EXCEPT !.index = s.index] ELSE s2

\* The concurrent calls: which function, on which kind of argument (a one-shot
\* iterator, an asynchronous iterator, a list), with which max_workers.
AsyncCfgs ==
    {c \in [fn : {"async_validate_records", "async_validate_jsons", "async_validate"},
            error_option : {RETURN, RAISE, SKIP},
            shape : {"oracle", "plain"},
            source : {"iterator", "async_iterator", "list"},
            max_workers : {None, Some(-1), Some(0), Some(1), Some(2)},
            progress : BOOLEAN,
            cbRaise : BOOLEAN] :
        /\ (c.fn = "async_validate_jsons" => c.shape = "oracle")
        /\ (c.cbRaise => c.progress)}

\* The process's environment.
EnvChars == {"4", "-", "x"}
EnvTexts == UNION {[1..n -> EnvChars] : n \in 0..MaxEnv}
PlainEnviron == [PYTHON_MAX_WORKERS |-> None, cpu_count |-> Some(2)]
AllEnvirons ==
    [PYTHON_MAX_WORKERS : {None} \cup {Some(t) : t \in EnvTexts},
     cpu_count : {None, Some(1), Some(2), Some(64)}]

\* The environments a call is explored in: every one when the call reads it.
Environs(c) ==
    IF c.max_workers # None THEN {PlainEnviron}
    ELSE IF c.fn = "async_validate_jsons" THEN AllEnvirons
    ELSE {e \in AllEnvirons : e.PYTHON_MAX_WORKERS = None}

AsyncAlphabet(c) ==
    IF c.fn = "async_validate_jsons" THEN {<<"json", 0>>, <<"json", 1>>}
    ELSE IF c.fn = "async_validate" /\ c.shape = "oracle"
    THEN {<<"dict", 0>>, <<"dict", 1>>, <<"json", 0>>, <<"json", 1>>}
    ELSE {<<"dict", 0>>, <<"dict", 1>>}

\* The inputs of a call: up to MaxTasks items in the plain environment, at
\* most one item in the others.
AsyncInputs(c, env) ==
    UNION {{[i \in 1..n |-> Item(i, f[i][1], f[i][2])] : f \in [1..n -> AsyncAlphabet(c)]} :
           n \in 0..(IF env = PlainEnviron THEN MaxTasks ELSE 1)}

AsyncInit ==
    /\ cfg \in AsyncCfgs
    /\ environ \in Environs(cfg)
    /\ input \in AsyncInputs(cfg, environ)
    /\ pc = "start" /\ taken = 0 /\ work = <<>> /\ pos = 0 /\ index = 0
    /\ total = None /\ vmodels = <<>> /\ yielded = <<>> /\ trace = <<>> /\ exc = ""
    /\ max_workers = None /\ semaphore = 0 /\ tasks = <<>> /\ completed = <<>>
    /\ CastIdle
    /\ RuleIdle
    /\ HeapIdle

\* The first step of the generator: the default of max_workers, the semaphore
\* (asyncio.Semaphore raises ValueError for a negative value), and then, for an
\* iterator, list(records) and one task per item.  A list is no Iterator, so
\* it is taken for an asynchronous iterator and "async for" raises TypeError.
AsyncStart ==
    /\ pc = "start"
    /\ LET w == default_max_workers(cfg, environ)
       IN  /\ max_workers' = Some(w)
           /\ IF w < 0
              THEN /\ pc' = "raised" /\ exc' = "ValueError"
                   /\ UNCHANGED <<semaphore, tasks, work, taken, total>>
              ELSE IF cfg.source = "iterator"
              THEN /\ pc' = "as_completed" /\ exc' = ""
                   /\ semaphore' = w
                   /\ work' = input /\ taken' = Len(input)
                   /\ total' = IF input = <<>> THEN None ELSE Some(Len(input))
                   /\ tasks' = [i \in DOMAIN input |-> "pending"]
              ELSE IF cfg.source = "async_iterator"
              THEN /\ pc' = "async_for" /\ exc' = ""
                   /\ semaphore' = w
                   /\ UNCHANGED <<tasks, work, taken, total>>
              ELSE /\ pc' = "raised" /\ exc' = "TypeError"
                   /\ semaphore' = w
                   /\ UNCHANGED <<tasks, work, taken, total>>
    /\ UNCHANGED <<cfg, input, pos, index, vmodels, yielded, trace, environ, completed>>
    /\ UNCHANGED <<castvars, rulevars, heapvars>>

\* Admit with no regard for the semaphore's value.
Admit_ungated(i) ==
    /\ tasks[i] = "pending"
    /\ tasks' = [tasks EXCEPT ![i] = "running"]
    /\ semaphore' = semaphore - 1
    /\ UNCHANGED <<pipevars, castvars, rulevars, heapvars, environ, max_workers, completed>>

\* A waiting task passes "async with semaphore" and its validation starts.
Admit(i) ==
    /\ tasks[i] = "pending" /\ semaphore > 0
    /\ tasks' = [tasks EXCEPT ![i] = "running"]
    /\ semaphore' = semaphore - 1
    /\ UNCHANGED <<pipevars, castvars, rulevars, heapvars, environ, max_workers, completed>>

\* A running task's validation ends: the task releases the semaphore and
\* finishes, with a result or with an exception.
Complete(i) ==
    /\ tasks[i] = "running"
    /\ tasks' = [tasks EXCEPT ![i] = "done"]
    /\ semaphore' = semaphore + 1
    /\ completed' = Append(completed, i)
    /\ UNCHANGED <<pipevars, castvars, rulevars, heapvars, environ, max_workers>>

\* The generator takes the next finished task.
Consume ==
    /\ pc = "as_completed" /\ pos < Len(completed)
    /\ Becomes(as_completed_iteration(cfg, State, completed))

\* The generator takes, validates and handles the next item of an
\* asynchronous iterator.
AsyncForStep ==
    /\ pc = "async_for" /\ pos < Len(input) /\ semaphore > 0
    /\ Becomes(async_for_iteration(cfg, input, State))

\* With no permit in the semaphore the generator takes the next item of the
\* asynchronous iterator and then waits at "async with semaphore" for ever:
\* nothing else holds the semaphore, so nothing releases it.
AsyncForBlocked ==
    /\ pc = "async_for" /\ pos < Len(input) /\ taken = pos /\ semaphore = 0
    /\ Becomes([State EXCEPT !.taken = @ + 1])

\* Every task has been taken, or the asynchronous iterator is exhausted.
AsyncFinish ==
    /\ \/ pc = "as_completed" /\ pos = Len(work)
       \/ pc = "async_for" /\ pos = Len(input)
    /\ Becomes(finish(State))

AsyncNext ==
    \/ AsyncStart
    \/ \E i \in DOMAIN tasks : Admit(i)
    \/ \E i \in DOMAIN tasks : Complete(i)
    \/ Consume
    \/ AsyncForStep
    \/ AsyncForBlocked
    \/ AsyncFinish

SpecAsync == AsyncInit /\ [][AsyncNext]_vars

----------------------------------------------------------------------------
\* Properties of the concurrent path, over the runs of SpecAsync

\* The synchronous call on the same batch: the per-item pipeline of the same
\* kind, with no hooks and no callback.
Synchronous(c) ==
    [fn |-> IF c.fn = "async_validate_records" THEN "validate_records"
            ELSE IF c.fn = "async_validate_jsons" THEN "validate_jsons"
            ELSE "validate",
     error_option |-> c.error_option, bulk |-> FALSE, shape |-> c.shape,
     listInput |-> FALSE, hooks |-> FALSE, progress |-> FALSE, cbRaise |-> FALSE,
     scAt |-> 0, transforms |-> "none", fields |-> FALSE, rules |-> FALSE,
     project |-> FALSE]

\* The (index, error-is-null) pairs of a sequence of results.
OutcomePairs(results) ==
    {<<results[i].value.tag, results[i].error = None>> : i \in DOMAIN results}

\* The concurrent call runs over a materialized input with at least one worker.
Materialized == cfg.source = "iterator" /\ max_workers # None /\ max_workers[1] > 0

\* The generator of the concurrent call has ended.
AsyncEnded == pc \in {"done", "raised"}

\* C27: under RETURN the concurrent path, once it has ended, has yielded the
\* same set of (index, error-is-null) pairs as the synchronous path on the same
\* batch, whatever the completion order of the tasks.
C27_SameOutcomesAsSynchronous ==
    (Materialized /\ cfg.error_option = RETURN /\ AsyncEnded) =>
        OutcomePairs(yielded) =
            OutcomePairs(run_to_end(Synchronous(cfg), input, InitialState).yielded)

\* The inputs whose result the policy keeps: every input under RETURN, the
\* successfully validated ones under SKIP.
Surviving ==
    {i \in DOMAIN input :
        cfg.error_option = SKIP => ~Invalid(input[i], Synchronous(cfg))}

\* C28: over a materialized input, under RETURN and under SKIP, no input's
\* result is yielded twice in any interleaving, and once the generator has
\* ended exactly one result has been yielded per surviving input.
C28_OneResultPerSurvivingInput ==
    (Materialized /\ cfg.error_option \in {RETURN, SKIP}) =>
        /\ \A i, j \in DOMAIN yielded :
              i # j => yielded[i].value.tag # yielded[j].value.tag
        /\ AsyncEnded => {yielded[i].value.tag : i \in DOMAIN yielded} = Surviving

\* The item of the k-th task the generator has taken.
TakenItem(k) == input[completed[k]]

\* C29: under RAISE over a materialized input, every yielded result is a
\* successful one; the generator raises exactly when the task it takes reports
\* a validation failure, with that failure, and what it has yielded by then
\* is the results of the tasks taken before; tasks that finish later are
\* never taken.
C29_RaiseStopsAtFirstFailure ==
    (Materialized /\ cfg.error_option = RAISE) =>
        /\ \A i \in DOMAIN yielded : yielded[i].error = None
        /\ \A k \in 1..pos :
              Invalid(TakenItem(k), Synchronous(cfg)) <=> (k = pos /\ pc = "raised")
        /\ pc = "raised" =>
              /\ exc = "pydantic.ValidationError"
              /\ YieldedTags = SubSeq(completed, 1, pos - 1)

\* The text writes an integer: an optional minus sign and at least one digit.
WritesInteger(t) ==
    LET d == IF t # <<>> /\ t[1] = "-" THEN Tail(t) ELSE t
    IN  d # <<>> /\ \A i \in DOMAIN d : IsDigit(d[i])

\* The integer the text writes.
IntegerWritten(t) ==
    IF t[1] = "-" THEN 0 - DigitsValue(Tail(t)) ELSE DigitsValue(t)

\* async_validate_jsons has been called without max_workers and has settled
\* its worker count.
DefaultSettled ==
    cfg.fn = "async_validate_jsons" /\ cfg.max_workers = None /\ max_workers # None

\* C30: in async_validate_jsons with max_workers unspecified the worker count
\* is 1 when PYTHON_MAX_WORKERS is absent or does not write an integer,
\* otherwise the smallest of the override, 32 and the CPU count; it never
\* exceeds 32.
C30_DefaultWorkerCount ==
    DefaultSettled =>
        LET override == environ.PYTHON_MAX_WORKERS
            cpus == IF environ.cpu_count = None THEN 1 ELSE environ.cpu_count[1]
            w == max_workers[1]
        IN  /\ w <= 32
            /\ IF override = None THEN w = 1
               ELSE IF ~WritesInteger(override[1]) THEN w = 1
               ELSE /\ w <= IntegerWritten(override[1]) /\ w <= cpus
                    /\ w \in {IntegerWritten(override[1]), 32, cpus}

\* An override of 44 on a machine with 64 CPUs has given 32 workers.
C30_Witness ==
    /\ DefaultSettled
    /\ environ.PYTHON_MAX_WORKERS = Some(<<"4", "4">>)
    /\ environ.cpu_count = Some(64)
    /\ max_workers = Some(32)

\* The tasks that have passed the semaphore and have not finished.
InFlight == {i \in DOMAIN tasks : tasks[i] = "running"}

\* The semaphore of the concurrent call exists.
Gated == max_workers # None /\ max_workers[1] >= 0 /\ pc # "start"

\* C31: in every state of the concurrent path the validations in flight are at
\* most max_workers, and the semaphore's value is what is left of max_workers.
C31_InFlightAtMostMaxWorkers ==
    Gated =>
        /\ Cardinality(InFlight) <= max_workers[1]
        /\ semaphore = max_workers[1] - Cardinality(InFlight)

\* With one worker, one task is in flight and another waits at the semaphore.
C31_Witness ==
    /\ Gated /\ max_workers = Some(1) /\ semaphore = 0
    /\ Cardinality(InFlight) = 1
    /\ \E i \in DOMAIN tasks : tasks[i] = "pending"

\* The invocations of the progress callback, in order.
ProgressCalls == SelectSeq(trace, LAMBDA e : e.ev = "progress")

\* C32: over a materialized input, under RETURN and under SKIP, the progress
\* callback has been invoked once for each task the generator has taken, in
\* the order the tasks finished, each time with the item's input index and
\* the number of items.
C32_ProgressPerCompletedItem ==
    (Materialized /\ cfg.progress /\ cfg.error_option \in {RETURN, SKIP}) =>
        /\ Len(ProgressCalls) = pos
        /\ \A k \in 1..pos :
              /\ ProgressCalls[k].tag = completed[k]
              /\ ProgressCalls[k].n = completed[k] - 1
              /\ ProgressCalls[k].tot = Some(Len(input))

----------------------------------------------------------------------------
\* Further properties of the caster, over the runs of SpecCast

\* The call is in or past the loop of cast_as_union.
InUnionCall ==
    /\ cpc \in {"union_loop", "returned", "raised"}
    /\ call.fn \in {"cast_as_union", "cast_as_annotation"}
    /\ _is_union_type(call.annotation)

\* The cast_as calls made for the member _type.
CastsFor(_type) == {i \in DOMAIN casts : casts[i].annotation = _type}

\* C33: in cast_as_union on a list, tuple, dict or set, every member among int,
\* float, str, bool the loop is done with was attempted only for a list or
\* tuple of length 1, by one cast_as of its single element; for every other
\* container the member made no cast_as call, was recorded in attempted_types
\* and did not end the call; the container itself is never handed to cast_as
\* for such a member.
C33_ContainerGuard ==
    (InUnionCall /\ IsContainer(call.value)) =>
        \A j \in 1..member :
            LET _type == call.annotation.args[j]
            IN  _type \in {"int", "float", "str", "bool"} =>
                    /\ \A i \in CastsFor(_type) : casts[i].value # call.value
                    /\ IF call.value.t \in {"list", "tuple"} /\ Size(call.value) = 1
                       THEN /\ Cardinality(CastsFor(_type)) = 1
                            /\ \A i \in CastsFor(_type) :
                                  casts[i].value = call.value.items[1]
                       ELSE /\ CastsFor(_type) = {}
                            /\ \E k \in DOMAIN attempted : attempted[k] = _type
                            /\ ~(cpc = "returned" /\ j = member)

\* The list [5, 5] against Union[int, str]: both members are recorded without
\* a cast_as call and the call fails.
C33_Witness ==
    /\ InUnionCall /\ cpc = "raised"
    /\ call.value = ListObj(<<IntObj(5, 0), IntObj(5, 0)>>, 0)
    /\ call.annotation = Union(<<"int", "str">>)
    /\ casts = <<>> /\ attempted = <<"int", "str">>


\* C34: cast_as_union fails only after every member has been attempted, and
\* the failure then lists every member of the union once, in declared order.
C34_FailureListsEveryMember ==
    (InUnionCall /\ cpc = "raised") =>
        /\ member = Len(call.annotation.args)
        /\ attempted = call.annotation.args
        /\ outcome = Raise("TypeError")


----------------------------------------------------------------------------
\* Further properties of the synchronous pipeline, over the runs of Spec

\* C35: the item should-continue answers False for is neither reported to the
\* progress callback nor yielded, on the per-item paths and on the bulk path:
\* no progress or yield event carries its position, and no yielded result is
\* its result.
C35_StoppedItemNotReported ==
    \A p \in DOMAIN trace :
        (trace[p].ev = "should_continue" /\ trace[p].r = "false") =>
            /\ \A q \in DOMAIN trace :
                  trace[q].tag = trace[p].tag => trace[q].ev \notin {"progress", "yield"}
            /\ \A i \in DOMAIN yielded : yielded[i].value.tag # trace[p].tag

\* A bulk run over two items with a progress callback, stopped at the second:
\* the first item was reported and yielded, the second was not.
C35_Witness ==
    /\ pc = "stopped" /\ cfg.bulk /\ cfg.progress /\ cfg.scAt = 2
    /\ EventCount("validate") = 2
    /\ EventCount("progress") = 1 /\ YieldedTags = <<1>>
    /\ trace[Len(trace)] = Ev("should_continue", 2, "false")


\* C36: on every path of validate_records the configured transform (v + 1 on
\* the field a) is applied to each record once: every validated instance the
\* call yields holds the record's own a, plus one.
C36_TransformAppliedOnce ==
    (cfg # <<>> /\ cfg.fn = "validate_records" /\ cfg.transforms = "field") =>
        \A i \in DOMAIN yielded :
            (yielded[i].result # None /\ "a" \in DOMAIN yielded[i].result[1].attrs) =>
                yielded[i].result[1].attrs["a"] = input[yielded[i].value.tag].data["a"] + 1


----------------------------------------------------------------------------
\* rules.py: ValidationRule and RuleValidator with several rules

\* Most rules given to a RuleValidator, and the largest priority value.
MaxRules == 2
MaxPriority == 1

\* ValidationRule(field, validator, message, priority).  The validators are
\* "lt2" (lambda v: v < 2 on a field, lambda r: r["a"] < 2 on the record) and
\* "raises" (a callback that raises).
ValidationRule(field, validator, message, priority) ==
    [field |-> field, validator |-> validator, message |-> message, priority |-> priority]

\* ValidationRule.validate(value) -> (is_valid, error_message); the message of
\* a raising validator is the rule's message followed by the exception's text.
ValidationRule_validate(rule, value) ==
    IF rule.validator = "raises"
    THEN [is_valid |-> FALSE, message |-> [text |-> rule.message, detail |-> TRUE]]
    ELSE LET v == IF rule.field = "*" THEN value["a"] ELSE value
         IN  IF v < 2 THEN [is_valid |-> TRUE, message |-> [text |-> 0, detail |-> FALSE]]
             ELSE [is_valid |-> FALSE, message |-> [text |-> rule.message, detail |-> FALSE]]

\* sorted(rules, key=lambda r: r.priority): ascending and stable.
RECURSIVE sorted_by_priority(_, _)
sorted_by_priority(rules, priorities) ==
    IF priorities = {} THEN <<>>
    ELSE LET p == CHOOSE x \in priorities : \A y \in priorities : x <= y
         IN  SelectSeq(rules, LAMBDA r : r.priority = p)
                 \o sorted_by_priority(rules, priorities \ {p})

\* RuleValidator.__init__
RuleValidator(rules) ==
    LET sorted == sorted_by_priority(rules, {rules[i].priority : i \in DOMAIN rules})
        fields == {sorted[i].field : i \in DOMAIN sorted} \ {"*"}
    IN  [rules |-> sorted,
         record_rules |-> SelectSeq(sorted, LAMBDA r : r.field = "*"),
         field_rules |-> [f \in fields |-> SelectSeq(sorted, LAMBDA r : r.field = f)]]

\* "for rule in self.record_rules": every failing rule writes errors["__record__"].
RECURSIVE record_rules_loop(_, _, _)
record_rules_loop(record_rules, record_dict, errs) ==
    IF record_rules = <<>> THEN errs
    ELSE LET rule == Head(record_rules)
             r == ValidationRule_validate(rule, record_dict)
         IN  record_rules_loop(
                 Tail(record_rules), record_dict,
                 IF r.is_valid THEN errs
                 ELSE [k \in DOMAIN errs \cup {"__record__"} |->
                         IF k = "__record__"
                         THEN [rule |-> rule.field, message |-> r.message,
                               type |-> "ValidationRule", input_value |-> record_dict]
                         ELSE errs[k]])

\* "for rule in field_rules": a failing rule writes errors[field_name] when the
\* field has no entry yet.
RECURSIVE field_rules_loop(_, _, _, _)
field_rules_loop(field_name, field_rules, value, errs) ==
    IF field_rules = <<>> THEN errs
    ELSE LET rule == Head(field_rules)
             r == ValidationRule_validate(rule, value)
         IN  field_rules_loop(
                 field_name, Tail(field_rules), value,
                 IF r.is_valid \/ field_name \in DOMAIN errs THEN errs
                 ELSE [k \in DOMAIN errs \cup {field_name} |->
                         IF k = field_name
                         THEN [rule |-> rule.field, message |-> r.message,
                               type |-> "ValidationRule", input_value |-> value]
                         ELSE errs[k]])

\* "for field_name, field_rules in self.field_rules.items()" over the fields
\* not yet visited; a field the record lacks is passed over.
RECURSIVE fields_rules_loop(_, _, _, _)
fields_rules_loop(self, todo, record_dict, errs) ==
    IF todo = {} THEN errs
    ELSE LET field_name == CHOOSE f \in todo : TRUE
         IN  fields_rules_loop(
                 self, todo \ {field_name}, record_dict,
                 IF field_name \in DOMAIN record_dict
                 THEN field_rules_loop(field_name, self.field_rules[field_name],
                                       record_dict[field_name], errs)
                 ELSE errs)

\* RuleValidator.validate(record) on a dict.
RuleValidator_errors(self, record_dict) ==
    fields_rules_loop(self, DOMAIN self.field_rules, record_dict,
                      record_rules_loop(self.record_rules, record_dict, <<>>))

\* The rule lists explored: the message of a rule is its position in the list.
RuleLists ==
    UNION {{[i \in 1..n |-> ValidationRule(f[i][1], f[i][2], i, f[i][3])] :
               f \in [1..n -> {"*", "a", "b"} \X {"lt2", "raises"} \X (0..MaxPriority)]} :
           n \in 0..MaxRules}

\* The records explored: a is 1 or 2, b is absent, 1 or 2.
RuleRecords ==
    {[k \in {"a"} |-> a] : a \in {1, 2}}
    \cup {[k \in {"a", "b"} |-> IF k = "a" THEN a ELSE b] : a \in {1, 2}, b \in {1, 2}}

RuleInit ==
    /\ rv_rules \in RuleLists
    /\ rv_record \in RuleRecords
    /\ rv_self = <<>> /\ rv_errors = <<>> /\ rv_pc = "new"
    /\ PipeIdle /\ CastIdle /\ AsyncIdle /\ HeapIdle

\* rule_validator = RuleValidator(rules)
RuleConstruct ==
    /\ rv_pc = "new"
    /\ rv_self' = RuleValidator(rv_rules)
    /\ rv_pc' = "constructed"
    /\ UNCHANGED <<rv_rules, rv_record, rv_errors>>
    /\ UNCHANGED <<pipevars, castvars, asyncvars, heapvars>>

\* rule_errors = rule_validator.validate(record)
RuleValidate ==
    /\ rv_pc = "constructed"
    /\ rv_errors' = RuleValidator_errors(rv_self, rv_record)
    /\ rv_pc' = "validated"
    /\ UNCHANGED <<rv_rules, rv_record, rv_self>>
    /\ UNCHANGED <<pipevars, castvars, asyncvars, heapvars>>

RuleNext == RuleConstruct \/ RuleValidate

SpecRules == RuleInit /\ [][RuleNext]_vars

\* The scope of a rule as the errors name it.
Scope(rule) == IF rule.field = "*" THEN "__record__" ELSE rule.field

\* The configured rules of a scope that fail on the record.
FailingRules(scope) ==
    {i \in DOMAIN rv_rules :
        /\ Scope(rv_rules[i]) = scope
        /\ scope = "__record__" \/ scope \in DOMAIN rv_record
        /\ ~ValidationRule_validate(
                rv_rules[i],
                IF scope = "__record__" THEN rv_record ELSE rv_record[scope]).is_valid}

\* C37: RuleValidator.validate reports exactly the scopes with a failing rule,
\* and for each of them, the record scope as well as each field, the message
\* of a failing rule whose priority value is the lowest among the failing
\* rules of that scope.
C37_LowestPriorityMessage ==
    rv_pc = "validated" =>
        /\ DOMAIN rv_errors = {s \in {"__record__", "a", "b"} : FailingRules(s) # {}}
        /\ \A s \in DOMAIN rv_errors :
              \E i \in FailingRules(s) :
                  /\ rv_errors[s].message.text = rv_rules[i].message
                  /\ \A j \in FailingRules(s) : rv_rules[i].priority <= rv_rules[j].priority


----------------------------------------------------------------------------
\* Progress of the concurrent path

\* The event loop runs every callback that is ready: the generator's next
\* step, a task waiting at a free semaphore, a validation under way.
SpecAsyncFair ==
    /\ SpecAsync
    /\ WF_vars(AsyncStart)
    /\ \A i \in 1..MaxTasks : WF_vars(i \in DOMAIN tasks /\ Admit(i))
    /\ \A i \in 1..MaxTasks : WF_vars(i \in DOMAIN tasks /\ Complete(i))
    /\ WF_vars(Consume)
    /\ WF_vars(AsyncForStep)
    /\ WF_vars(AsyncForBlocked)
    /\ WF_vars(AsyncFinish)

\* C38: whatever max_workers or PYTHON_MAX_WORKERS is, zero and negative
\* values included, every task created for a materialized item is eventually
\* admitted and retired, and the concurrent call ends.
C38_EveryTaskAdmittedAndRetired ==
    /\ <>AsyncEnded
    /\ \A i \in 1..MaxTasks :
          (i \in DOMAIN tasks /\ tasks[i] = "pending")
              ~> (i \in DOMAIN tasks /\ tasks[i] = "done")


\* C39: the instance cast_to_annotated_class builds for a plain-annotated
\* class has an attribute for each declared field and no other attribute,
\* whether the class is built by keywords or by attribute assignment.
C39_InstanceHasDeclaredFieldsOnly ==
    (cpc = "returned" /\ call.fn = "cast_to_annotated_class") =>
        Keys(outcome.ret[1].items) = DOMAIN cls_annotations(call.annotation)


----------------------------------------------------------------------------
\* The caller's mapping and the dicts made from it: validate_record,
\* apply_transforms and cast_to_annotated_class on a heap of dict objects

\* A call that keeps on working on the dict it was given.
dict_copy_alias(h, d) == [heap |-> h, ref |-> d]

\* d.copy(): a new dict with the items of d.
dict_copy(h, d) == [heap |-> Append(h, h[d]), ref |-> Len(h) + 1]

\* apply_transforms(record, transforms) with transforms None ("none"),
\* [Transform(str, field="a")] ("field"), or a record-level transform that
\* works in place, def f(r): r.pop("x", None); return r  ("record").
apply_transforms_on(h, record, transforms) ==
    IF transforms = "none" THEN [heap |-> h, ref |-> record]
    ELSE LET result == dict_copy(h, record)
             items == result.heap[result.ref]
         IN  IF transforms = "record"
             THEN [heap |-> [result.heap EXCEPT
                                ![result.ref] = ItemsOf(items, Keys(items) \ {<<"x">>})],
                   ref |-> result.ref]
             ELSE IF <<"a">> \in Keys(items)
             THEN [heap |-> [result.heap EXCEPT
                                ![result.ref] =
                                    Put(items, <<"a">>, str(Get(items, <<"a">>)).ret[1])],
                   ref |-> result.ref]
             ELSE result

\* _filter_record_fields(record, fields): a new dict.
filter_record_fields_on(h, record, fields) ==
    [heap |-> Append(h, ItemsOf(h[record], fields)), ref |-> Len(h) + 1]

\* cast_to_annotated_class(d, cls): the writes of its loop go to new_data.
new_data_written(nd, loop) ==
    [heap |-> [nd.heap EXCEPT ![nd.ref] = loop.new_data], ref |-> nd.ref,
     exc |-> IF loop.raises # "" THEN loop.raises
             ELSE IF loop.errors # <<>> THEN "cast.ValidationError" ELSE ""]

cast_to_annotated_class_on(h, d, cls) ==
    IF DOMAIN cls_annotations(cls) \ Keys(h[d]) # {}
    THEN [heap |-> h, ref |-> d, exc |-> "cast.ValidationError"]
    ELSE new_data_written(dict_copy(h, d),
                          fields_loop(h[d], <<>>, cls_annotations(cls), 1))

\* The calls followed: each function on every mapping, validate_record with a
\* plain-annotated class and any choice of transforms and fields.
HeapCalls ==
    {c \in [fn : {"validate_record", "apply_transforms", "cast_to_annotated_class"},
            transforms : {"none", "field", "record"},
            fields : BOOLEAN,
            cls : PlainClasses] :
        /\ c.fn = "apply_transforms" => ~c.fields /\ c.cls = [annotations |-> <<>>, init |-> FALSE]
        /\ c.fn = "cast_to_annotated_class" => ~c.fields /\ c.transforms = "none"}

HeapInit ==
    /\ \E d \in Mappings, c \in HeapCalls :
          /\ heap = <<d.items>>
          /\ frame = [fn |-> c.fn, transforms |-> c.transforms, fields |-> c.fields,
                      cls |-> c.cls, arg |-> d.items, pc |-> "called", ref |-> 1,
                      exc |-> ""]
    /\ PipeIdle /\ CastIdle /\ AsyncIdle /\ RuleIdle

HeapBecomes(r, pc2, e) ==
    /\ heap' = r.heap
    /\ frame' = [frame EXCEPT !.ref = r.ref, !.pc = pc2, !.exc = e]
    /\ UNCHANGED <<pipevars, castvars, asyncvars, rulevars>>

HeapEnds(r) == HeapBecomes(r, "ended", r.exc)

\* validate_record: record_dict = record.copy()
RecordCopy ==
    /\ frame.fn = "validate_record" /\ frame.pc = "called"
    /\ HeapBecomes(dict_copy(heap, 1), "transforms", "")

\* validate_record: record_dict = apply_transforms(record_dict, transforms)
RecordTransforms ==
    /\ frame.fn = "validate_record" /\ frame.pc = "transforms"
    /\ HeapBecomes(apply_transforms_on(heap, frame.ref, frame.transforms), "fields", "")

\* validate_record: record_dict = _filter_record_fields(record_dict, fields)
RecordFields ==
    /\ frame.fn = "validate_record" /\ frame.pc = "fields"
    /\ HeapBecomes(IF frame.fields
                   THEN filter_record_fields_on(heap, frame.ref, {<<k>> : k \in FieldsArg})
                   ELSE [heap |-> heap, ref |-> frame.ref],
                   "cast", "")

\* validate_record: validated_record = cast_to_annotated_class(record_dict, model)
RecordCast ==
    /\ frame.fn = "validate_record" /\ frame.pc = "cast"
    /\ HeapEnds(cast_to_annotated_class_on(heap, frame.ref, frame.cls))

\* apply_transforms(d, transforms) called on the caller's mapping
TransformsCall ==
    /\ frame.fn = "apply_transforms" /\ frame.pc = "called"
    /\ HeapBecomes(apply_transforms_on(heap, 1, frame.transforms), "ended", "")

\* cast_to_annotated_class(d, cls) called on the caller's mapping
ClassCastCall ==
    /\ frame.fn = "cast_to_annotated_class" /\ frame.pc = "called"
    /\ HeapEnds(cast_to_annotated_class_on(heap, 1, frame.cls))

HeapNext ==
    \/ RecordCopy
    \/ RecordTransforms
    \/ RecordFields
    \/ RecordCast
    \/ TransformsCall
    \/ ClassCastCall

SpecHeap == HeapInit /\ [][HeapNext]_vars

\* C40: at every point of a call of validate_record, apply_transforms or
\* cast_to_annotated_class, and after it, whether it succeeded or failed, the
\* caller's mapping holds the keys and values it held before the call.
C40_CallerMappingUnchanged ==
    frame # <<>> => heap[1] = frame.arg

\* validate_record on {'a': 5, 'x': 'x'} with the field transform, fields and
\* a class declaring a: int has ended: the copy, the transformed copy, the
\* filtered dict and new_data are four further dicts, and the caller's
\* mapping is as it was.
C40_Witness ==
    /\ frame # <<>> /\ frame.fn = "validate_record" /\ frame.pc = "ended"
    /\ frame.exc = "" /\ frame.transforms = "field" /\ frame.fields
    /\ frame.arg = <<StrObj(<<"a">>, 0), IntObj(5, 0), StrObj(<<"x">>, 0), StrObj(<<"x">>, 0)>>
    /\ Len(heap) = 5 /\ heap[1] = frame.arg /\ heap[2] = heap[1]
    /\ Get(heap[3], <<"a">>) = StrObj(<<"5">>, 1)
    /\ Keys(heap[4]) = {<<"a">>}
    /\ Get(heap[5], <<"a">>) = IntObj(5, 2)

============================================================================
